---- MODULE Spec2Model ----
(***************************************************************************)
(* Relay bot between end users and one support channel (alekkss/max).      *)
(*                                                                         *)
(* The store is the SQLite database of src/database/connection.py with its *)
(* three tables; the update router is src/handlers/update_handler.py; the  *)
(* services and repositories it calls are modelled by operators that       *)
(* compute what the Python code computes, exceptions included.             *)
(*                                                                         *)
(* Ten specifications:                                                     *)
(*   Spec       the bot as wired in __main__.py: one action per routed     *)
(*              event (the whole of UpdateHandler.handle_update), the      *)
(*              clock, and UserService.save_phone_number;                  *)
(*   SpecStore  the message repository called directly: save_message,      *)
(*              save_mapping, get_mapping_by_message_id and                *)
(*              count_replies_since_last_user_message, and the clock;      *)
(*   SpecPoll   the long-polling loop of BotService: start, get_updates,   *)
(*              the events of a batch one after another, stop;             *)
(*   SpecAdmin  the entry points of AdminService, and set_state of         *)
(*              AdminStateManager, called directly;                        *)
(*   SpecBroadcast      one run of                                         *)
(*              AdminService._send_notifications_async, step by step;      *)
(*   SpecBroadcastLive  the same run under weak fairness of its steps;     *)
(*   SpecJobs   up to MaxJobs runs of _send_notifications_async            *)
(*              interleaved;                                               *)
(*   SpecQuestion  the questions of users routed through handle_update     *)
(*              beside replies stored in the message table;                *)
(*   SpecMarker the polling loop against a gateway that serves a fixed     *)
(*              stream of events by marker;                                *)
(*   SpecLoopAndJob  one run of _send_notifications_async while the event  *)
(*              loop routes the events that register users.                *)
(***************************************************************************)
EXTENDS Integers, Sequences, FiniteSets, TLC

VARIABLES
    schema,     \* columns the database file has beyond the common ones
    users,      \* table users: user_id -> [name, phone_number]
    messages,   \* table messages: sequence of rows, id = position
    mappings,   \* table message_mapping: message_id -> row
    now,        \* CURRENT_TIMESTAMP, in whole seconds
    ev,         \* the event last given to handle_update
    scenario,   \* the handler handle_update dispatched it to
    sent,       \* gateway calls attempted while handling ev, in order
    exported,   \* whether the export collaborator was invoked for ev
    exc,        \* exception that left the last operation ("none": returned)
    call,       \* SpecStore, SpecAdmin: the call last made
    ret,        \* SpecStore: what it returned
    is_running, \* BotService._is_running
    pc,         \* where BotService.start is
    last_marker,\* BotService._last_marker
    updates,    \* events of the fetched batch not yet handled
    fetched,    \* the batch as get_updates returned it
    handled,    \* events of the batch handled so far, with what each did
    last_poll,  \* how the last get_updates ended
    states,     \* AdminStateManager._states: user_id -> AdminContext
    jobs        \* broadcast threads started, in order

pollvars == <<is_running, pc, last_marker, updates, fetched, handled, last_poll>>

adminvars == <<states, jobs>>

vars == <<schema, users, messages, mappings, now, ev, scenario, sent,
          exported, exc, call, ret, is_running, pc, last_marker, updates,
          fetched, handled, last_poll, states, jobs>>

(***************************************************************************)
(* Bounds of the model.                                                    *)
(***************************************************************************)
MaxMessages == 2     \* rows of messages in Spec
MaxStored == 3       \* rows of messages in SpecStore
MaxTime == 2
MaxBatch == 2        \* events in one answer of get_updates
MaxRecipients == 3   \* recipients of one broadcast job
MaxJobs == 2         \* broadcast jobs running at a time

UserIds == {1, 2}
\* display names a user id is seen with (user 1 changes hers)
NamesOf(uid) == IF uid = 1 THEN {"Alice", "Alisa"} ELSE {"Bob"}
MessageIds == {"m1", "m2"}
Phones == {"+79991234567"}
OperatorNames == {"Olga"}

(***************************************************************************)
(* Texts and the two string conversions the router applies to them.        *)
(***************************************************************************)
Texts == {"/start", " /Hello ", "/export", " /Export ", "Hi"}

Strip(t) ==
    CASE t = " /Hello " -> "/Hello"
      [] t = " /Export " -> "/Export"
      [] t = " " -> ""
      [] OTHER -> t

Lower(t) ==
    CASE t = "/Hello" -> "/hello"
      [] t = "/Export" -> "/export"
      [] t = " /Hello " -> " /hello "
      [] t = " /Export " -> " /export "
      [] t = "Hi" -> "hi"
      [] OTHER -> t

(***************************************************************************)
(* Enumerations of the source.                                             *)
(***************************************************************************)
MESSAGE_CREATED == "message_created"
BOT_STARTED == "bot_started"
REPLY == "reply"
FORWARD == "forward"
FROM_USER == "from_user"
TO_USER == "to_user"

SupportChatId == "support"
NoPhone == ""
NoMid == ""
NoOperator == ""
NoMarker == ""

(***************************************************************************)
(* The database schema.  initialize_schema creates each table only if it   *)
(* does not exist, so the columns are those of the file found at start-up: *)
(* a file created by this code has neither users.phone_number nor          *)
(* message_mapping.question_text, the two columns the repositories name    *)
(* beyond the created ones; a file migrated by hand has them.              *)
(***************************************************************************)
CreatedUsersColumns == {"user_id", "name", "first_contact", "last_contact"}
CreatedMessagesColumns ==
    {"id", "user_id", "text", "direction", "operator_name", "timestamp"}
CreatedMappingColumns == {"message_id", "user_id", "user_name", "created_at"}

CreatedSchema ==
    [users |-> CreatedUsersColumns, messages |-> CreatedMessagesColumns,
     message_mapping |-> CreatedMappingColumns]

MigratedSchema ==
    [users |-> CreatedUsersColumns \cup {"phone_number"},
     messages |-> CreatedMessagesColumns,
     message_mapping |-> CreatedMappingColumns \cup {"question_text"}]

UsersColumns(sch) == sch.users

MappingColumns(sch) == sch.message_mapping

(***************************************************************************)
(* Dataclasses of src/models/message.py: a constructor call raises         *)
(* TypeError unless the keywords are exactly the declared fields (none of  *)
(* these has a default).                                                   *)
(***************************************************************************)
MessageMappingCreateFields == {"message_id", "user_id", "user_name"}
MessageMappingFields == {"message_id", "user_id", "user_name", "created_at"}

Construct(fields, kwargs) ==
    IF DOMAIN kwargs = fields
    THEN [exc |-> "none", obj |-> kwargs]
    ELSE [exc |-> "TypeError", obj |-> kwargs]

(***************************************************************************)
(* Gateway calls.  Each call either succeeds, fails with MaxApiHttpError   *)
(* (a non-2xx answer) or fails with another MaxApiError (timeout,          *)
(* transport).                                                             *)
(***************************************************************************)
GatewayOutcomes == {"ok", "MaxApiHttpError", "MaxApiError"}

\* One attempted call: the method, its target, what the text is built from,
\* its outcome and, for a successful send to a chat, the message id returned.
Sent(op, to, kind, uid, name, text, count, result) ==
    [op |-> op, to |-> to, kind |-> kind, user_id |-> uid, user_name |-> name,
     text |-> text, count |-> count, result |-> result, mid |-> NoMid]

(***************************************************************************)
(* SQLiteUserRepository.                                                   *)
(***************************************************************************)
\* SELECT user_id, name, first_contact, last_contact, phone_number ...
user_get_by_id(us, sch, uid) ==
    IF "phone_number" \notin UsersColumns(sch)
    THEN [exc |-> "OperationalError", found |-> FALSE]
    ELSE [exc |-> "none", found |-> uid \in DOMAIN us]

\* save with phone_number None: the upsert commits, then get_by_id re-reads.
user_save(us, sch, uid, name) ==
    LET upserted ==
            [k \in DOMAIN us \cup {uid} |->
                IF k # uid THEN us[k]
                ELSE IF uid \in DOMAIN us
                     THEN [us[uid] EXCEPT !.name = name]
                     ELSE [name |-> name, phone_number |-> NoPhone]]
        got == user_get_by_id(upserted, sch, uid)
    IN  [users |-> upserted,
         exc |-> IF got.exc # "none" THEN got.exc
                 ELSE IF ~got.found THEN "RuntimeError" ELSE "none"]

update_phone_number(us, sch, uid, phone) ==
    IF "phone_number" \notin UsersColumns(sch)
    THEN [users |-> us, exc |-> "OperationalError"]
    ELSE LET updated ==
                 [k \in DOMAIN us |->
                     IF k = uid THEN [us[k] EXCEPT !.phone_number = phone]
                     ELSE us[k]]
         IN  [users |-> updated,
              exc |-> IF uid \in DOMAIN us THEN "none" ELSE "RuntimeError"]

(***************************************************************************)
(* SQLiteMessageRepository.                                                *)
(***************************************************************************)
\* INSERT INTO messages: AUTOINCREMENT id, timestamp DEFAULT CURRENT_TIMESTAMP.
\* The messages table's foreign key is not enforced (no PRAGMA foreign_keys).
save_message(msgs, uid, text, direction, operator_name, t) ==
    Append(msgs, [id |-> Len(msgs) + 1, user_id |-> uid, text |-> text,
                  direction |-> direction, operator_name |-> operator_name,
                  timestamp |-> t])

count_replies_not_strict(msgs, uid) ==
    LET fromUser == {i \in DOMAIN msgs :
                        msgs[i].user_id = uid /\ msgs[i].direction = FROM_USER}
    IN  IF fromUser = {} THEN 0
        ELSE LET last == CHOOSE i \in fromUser :
                            \A j \in fromUser :
                                msgs[j].timestamp <= msgs[i].timestamp
             IN  Cardinality({i \in DOMAIN msgs :
                                /\ msgs[i].user_id = uid
                                /\ msgs[i].direction = TO_USER
                                /\ msgs[i].timestamp >= msgs[last].timestamp})

count_replies_lifetime(msgs, uid) ==
    Cardinality({i \in DOMAIN msgs :
                    msgs[i].user_id = uid /\ msgs[i].direction = TO_USER})

\* SELECT timestamp ... ORDER BY timestamp DESC LIMIT 1, then
\* SELECT COUNT(*) ... AND timestamp > ?
count_replies_since_last_user_message(msgs, uid) ==
    LET fromUser == {i \in DOMAIN msgs :
                        msgs[i].user_id = uid /\ msgs[i].direction = FROM_USER}
    IN  IF fromUser = {} THEN 0
        ELSE LET last == CHOOSE i \in fromUser :
                            \A j \in fromUser :
                                msgs[j].timestamp <= msgs[i].timestamp
             IN  Cardinality({i \in DOMAIN msgs :
                                /\ msgs[i].user_id = uid
                                /\ msgs[i].direction = TO_USER
                                /\ msgs[i].timestamp > msgs[last].timestamp})

None == [kind |-> "None"]

\* SELECT message_id, user_id, user_name, question_text, created_at ...;
\* a row found is passed to MessageMapping(..., question_text=...).
get_mapping_by_message_id(maps, sch, mid) ==
    IF "question_text" \notin MappingColumns(sch)
    THEN [exc |-> "OperationalError", ret |-> None]
    ELSE IF mid \notin DOMAIN maps
    THEN [exc |-> "none", ret |-> None]
    ELSE LET made == Construct(MessageMappingFields,
                        [message_id |-> mid,
                         user_id |-> maps[mid].user_id,
                         user_name |-> maps[mid].user_name,
                         question_text |-> maps[mid].question_text,
                         created_at |-> maps[mid].created_at])
         IN  [exc |-> made.exc,
              ret |-> IF made.exc = "none"
                      THEN [kind |-> "MessageMapping", value |-> made.obj]
                      ELSE None]

\* INSERT OR REPLACE INTO message_mapping (message_id, user_id, user_name,
\* question_text); the parameter tuple reads mapping_data.question_text
\* inside the transaction, which rolls back on any exception.
save_mapping(maps, sch, dto, t) ==
    IF "question_text" \notin DOMAIN dto
    THEN [mappings |-> maps, exc |-> "AttributeError", ret |-> None]
    ELSE IF "question_text" \notin MappingColumns(sch)
    THEN [mappings |-> maps, exc |-> "OperationalError", ret |-> None]
    ELSE LET stored ==
                 [k \in DOMAIN maps \cup {dto.message_id} |->
                     IF k = dto.message_id
                     THEN [user_id |-> dto.user_id, user_name |-> dto.user_name,
                           question_text |-> dto.question_text, created_at |-> t]
                     ELSE maps[k]]
             got == get_mapping_by_message_id(stored, sch, dto.message_id)
         IN  [mappings |-> stored,
              exc |-> IF got.exc # "none" THEN got.exc
                      ELSE IF got.ret = None THEN "RuntimeError" ELSE "none",
              ret |-> got.ret]

(***************************************************************************)
(* The services and the router work on a record w of what one event has    *)
(* done so far: the three tables, the gateway calls attempted, whether the *)
(* export collaborator ran, the handler chosen and the exception raised.   *)
(* Once w.exc is not "none" the rest of the handler does not run.          *)
(***************************************************************************)

(***************************************************************************)
(* UserService.                                                            *)
(***************************************************************************)
register_or_update_user(w, sch, uid, name) ==
    LET r == user_save(w.users, sch, uid, name)
    IN  [w EXCEPT !.users = r.users, !.exc = r.exc]

has_phone_number(us, sch, uid) ==
    /\ user_get_by_id(us, sch, uid).found
    /\ us[uid].phone_number # NoPhone
    /\ Strip(us[uid].phone_number) # ""

\* send_welcome_message / send_welcome_message_with_phone: one
\* send_message_to_user, whose error is not caught here.
send_welcome(w, uid, name, withPhone, gw) ==
    [w EXCEPT !.sent = Append(@, Sent("send_message_to_user", uid,
                              IF withPhone THEN "welcome_with_phone" ELSE "welcome",
                              uid, name, "", 0, gw)),
              !.exc = IF gw = "ok" THEN "none" ELSE gw]

handle_start_command(w, sch, uid, name, gw) ==
    LET w1 == register_or_update_user(w, sch, uid, name)
    IN  IF w1.exc # "none" THEN w1
        ELSE send_welcome(w1, uid, name, has_phone_number(w1.users, sch, uid), gw)

handle_bot_started(w, sch, uid, name, gw) ==
    LET w1 == register_or_update_user(w, sch, uid, name)
    IN  IF w1.exc # "none" THEN w1
        ELSE send_welcome(w1, uid, name, has_phone_number(w1.users, sch, uid), gw)

(***************************************************************************)
(* MessageService.                                                         *)
(***************************************************************************)
save_user_message(w, uid, text, t) ==
    [w EXCEPT !.messages = save_message(@, uid, text, FROM_USER, NoOperator, t)]

save_operator_message(w, uid, text, operator_name, t) ==
    [w EXCEPT !.messages = save_message(@, uid, text, TO_USER, operator_name, t)]

\* The answer of send_message_to_chat carries message id mid (NoMid: none).
\* Only MaxApiHttpError is caught.
forward_to_support(w, sch, uid, name, text, gw, mid, t) ==
    LET replies_count == count_replies_since_last_user_message(w.messages, uid)
        w1 == [w EXCEPT !.sent = Append(@,
                    [Sent("send_message_to_chat", SupportChatId, "forward",
                          uid, name, text, replies_count, gw)
                     EXCEPT !.mid = IF gw = "ok" THEN mid ELSE NoMid])]
    IN  IF gw = "MaxApiHttpError" THEN w1
        ELSE IF gw # "ok" THEN [w1 EXCEPT !.exc = gw]
        ELSE IF mid = NoMid THEN w1
        ELSE LET made == Construct(MessageMappingCreateFields,
                            [message_id |-> mid, user_id |-> uid,
                             user_name |-> name, question_text |-> text])
             IN  IF made.exc # "none" THEN [w1 EXCEPT !.exc = made.exc]
                 ELSE LET r == save_mapping(w1.mappings, sch, made.obj, t)
                      IN  [w1 EXCEPT !.mappings = r.mappings, !.exc = r.exc]

send_operator_reply(w, uid, name, text, gw) ==
    LET w1 == [w EXCEPT !.sent = Append(@, Sent("send_message_to_user", uid,
                            "reply", uid, name, text, 0, gw))]
    IN  IF gw \in {"ok", "MaxApiHttpError"} THEN w1 ELSE [w1 EXCEPT !.exc = gw]

(***************************************************************************)
(* UpdateHandler.                                                          *)
(***************************************************************************)
\* A variant that takes the message out of the store again when the forward
\* gave no message id.
handle_user_message_unsaved_on_failure(w, sch, uid, name, text, gw, mid, t) ==
    LET w1 == register_or_update_user(w, sch, uid, name)
        w2 == forward_to_support(save_user_message(w1, uid, text, t),
                                 sch, uid, name, text, gw, mid, t)
    IN  IF w1.exc # "none" THEN w1
        ELSE IF gw = "ok" /\ mid # NoMid THEN w2
        ELSE [w2 EXCEPT !.messages = w1.messages]

\* A variant that forwards the message before it persists it.
handle_user_message_forward_first(w, sch, uid, name, text, gw, mid, t) ==
    LET w1 == register_or_update_user(w, sch, uid, name)
        w2 == forward_to_support(w1, sch, uid, name, text, gw, mid, t)
    IN  IF w1.exc # "none" THEN w1
        ELSE save_user_message(w2, uid, text, t)

handle_user_message(w, sch, uid, name, text, gw, mid, t) ==
    LET w1 == register_or_update_user(w, sch, uid, name)
    IN  IF w1.exc # "none" THEN w1
        ELSE forward_to_support(save_user_message(w1, uid, text, t),
                                sch, uid, name, text, gw, mid, t)

\* try: count, edit_message; except Exception: nothing is raised.
update_reply_counter(w, message_id, mapping, gw2) ==
    [w EXCEPT !.sent = Append(@, Sent("edit_message", message_id, "counter",
                          mapping.user_id, mapping.user_name,
                          mapping.question_text,
                          count_replies_since_last_user_message(w.messages,
                                                                mapping.user_id),
                          gw2))]

NoLink == [type |-> "none", mid |-> NoMid]

handle_operator_reply(w, sch, link, operator_name, text, gw, gw2, t) ==
    IF link = NoLink THEN w
    ELSE IF link.type # REPLY THEN w
    ELSE IF link.mid = NoMid THEN w
    ELSE LET got == get_mapping_by_message_id(w.mappings, sch, link.mid)
         IN  IF got.exc # "none" THEN [w EXCEPT !.exc = got.exc]
             ELSE IF got.ret = None THEN w
             ELSE LET mapping == got.ret.value
                      w1 == save_operator_message(w, mapping.user_id, text,
                                                  operator_name, t)
                      w2 == send_operator_reply(w1, mapping.user_id,
                                                mapping.user_name, text, gw)
                  IN  IF w2.exc # "none" \/ gw # "ok" THEN w2
                      ELSE update_reply_counter(w2, link.mid, mapping, gw2)

\* try: export to Excel, upload_file, send_file_to_chat; except Exception:
\* send the error text to the support chat, ignoring a failure of that send
\* (its outcome is not observed).  The export reads users.phone_number, so
\* it raises before any upload where the column is missing.  gw is the
\* outcome of building and uploading the file, gw2 of send_file_to_chat.
handle_export_command(w, sch, operator_name, gw, gw2) ==
    LET upload == Sent("upload_file", SupportChatId, "export", 0,
                       operator_name, "", 0, gw)
        file == Sent("send_file_to_chat", SupportChatId, "export", 0,
                     operator_name, "", 0, gw2)
        error == Sent("send_message_to_chat", SupportChatId, "export_error", 0,
                      operator_name, "", 0, "unobserved")
    IN  [w EXCEPT !.exported = TRUE,
                  !.sent = IF "phone_number" \notin UsersColumns(sch)
                           THEN @ \o <<error>>
                           ELSE IF gw # "ok" THEN @ \o <<upload, error>>
                           ELSE IF gw2 # "ok" THEN @ \o <<upload, file, error>>
                           ELSE @ \o <<upload, file>>]

Dispatch(w, name) == [w EXCEPT !.scenario = name]

\* A variant that takes /export from the bot itself too.
handle_message_created_any_sender(w, sch, e, gw, gw2, mid, t) ==
    LET is_from_support_chat == e.chat_id = SupportChatId
        is_private_to_bot == e.private
    IN  IF is_from_support_chat /\ Lower(Strip(e.text)) = "/export"
        THEN handle_export_command(Dispatch(w, "export"), sch, e.name, gw, gw2)
        ELSE IF is_from_support_chat /\ ~e.is_bot /\ e.link # NoLink
        THEN handle_operator_reply(Dispatch(w, "operator_reply"), sch, e.link,
                                   e.name, e.text, gw, gw2, t)
        ELSE IF is_from_support_chat
        THEN Dispatch(w, "ignored")
        ELSE IF is_private_to_bot /\ Lower(Strip(e.text)) \in {"/start", "/hello"}
        THEN handle_start_command(Dispatch(w, "start"), sch, e.user_id, e.name, gw)
        ELSE IF is_private_to_bot /\ ~e.is_bot
        THEN handle_user_message(Dispatch(w, "user_message"), sch, e.user_id,
                                 e.name, e.text, gw, mid, t)
        ELSE Dispatch(w, "unmatched")

\* A variant that tests for the link before it tests for /export.
handle_message_created_reply_first(w, sch, e, gw, gw2, mid, t) ==
    LET is_from_support_chat == e.chat_id = SupportChatId
        is_private_to_bot == e.private
    IN  IF is_from_support_chat /\ ~e.is_bot /\ e.link # NoLink
        THEN handle_operator_reply(Dispatch(w, "operator_reply"), sch, e.link,
                                   e.name, e.text, gw, gw2, t)
        ELSE IF is_from_support_chat /\ ~e.is_bot
                /\ Lower(Strip(e.text)) = "/export"
        THEN handle_export_command(Dispatch(w, "export"), sch, e.name, gw, gw2)
        ELSE IF is_from_support_chat
        THEN Dispatch(w, "ignored")
        ELSE IF is_private_to_bot /\ Lower(Strip(e.text)) \in {"/start", "/hello"}
        THEN handle_start_command(Dispatch(w, "start"), sch, e.user_id, e.name, gw)
        ELSE IF is_private_to_bot /\ ~e.is_bot
        THEN handle_user_message(Dispatch(w, "user_message"), sch, e.user_id,
                                 e.name, e.text, gw, mid, t)
        ELSE Dispatch(w, "unmatched")

handle_message_created(w, sch, e, gw, gw2, mid, t) ==
    LET is_from_support_chat == e.chat_id = SupportChatId
        is_private_to_bot == e.private
    IN  IF is_from_support_chat /\ ~e.is_bot /\ Lower(Strip(e.text)) = "/export"
        THEN handle_export_command(Dispatch(w, "export"), sch, e.name, gw, gw2)
        ELSE IF is_from_support_chat /\ ~e.is_bot /\ e.link # NoLink
        THEN handle_operator_reply(Dispatch(w, "operator_reply"), sch, e.link,
                                   e.name, e.text, gw, gw2, t)
        ELSE IF is_from_support_chat
        THEN Dispatch(w, "ignored")
        ELSE IF is_private_to_bot /\ Lower(Strip(e.text)) \in {"/start", "/hello"}
        THEN handle_start_command(Dispatch(w, "start"), sch, e.user_id, e.name, gw)
        ELSE IF is_private_to_bot /\ ~e.is_bot
        THEN handle_user_message(Dispatch(w, "user_message"), sch, e.user_id,
                                 e.name, e.text, gw, mid, t)
        ELSE Dispatch(w, "unmatched")

handle_update(w, sch, e, gw, gw2, mid, t) ==
    IF e.update_type = MESSAGE_CREATED
    THEN handle_message_created(w, sch, e, gw, gw2, mid, t)
    ELSE IF e.update_type = BOT_STARTED
    THEN handle_bot_started(Dispatch(w, "bot_started"), sch, e.user_id, e.name, gw)
    ELSE Dispatch(w, "unknown")

(***************************************************************************)
(* Inbound events.  A message event carries the chat it was posted in,     *)
(* whether its recipient has a user id (a private message), its sender,    *)
(* its text and its link.                                                  *)
(***************************************************************************)
Links == {NoLink, [type |-> FORWARD, mid |-> "m1"], [type |-> REPLY, mid |-> NoMid],
          [type |-> REPLY, mid |-> "m1"]}

Event(type, chat, private, bot, uid, name, text, link) ==
    [update_type |-> type, chat_id |-> chat, private |-> private,
     is_bot |-> bot, user_id |-> uid, name |-> name, text |-> text,
     link |-> link]

NoEvent == Event("none", "none", FALSE, FALSE, 0, "", "", NoLink)

SupportEvents ==
    {Event(MESSAGE_CREATED, SupportChatId, FALSE, FALSE, 1, op, t, l) :
        op \in OperatorNames, t \in {"/export", " /Export "},
        l \in {NoLink, [type |-> REPLY, mid |-> "m1"]}}
    \cup {Event(MESSAGE_CREATED, SupportChatId, FALSE, FALSE, 1, op, "Hi", l) :
        op \in OperatorNames, l \in Links}
    \cup {Event(MESSAGE_CREATED, SupportChatId, FALSE, TRUE, 1, "Bot", t, l) :
        t \in {"/export", "Hi"}, l \in {NoLink, [type |-> REPLY, mid |-> "m1"]}}
    \cup {Event(MESSAGE_CREATED, SupportChatId, TRUE, FALSE, 1, "Alice",
                "/start", NoLink)}

\* what a user writes to the bot (user 2 writes /export where user 1 asks)
TextsOf(uid) ==
    IF uid = 1 THEN {"/start", " /Hello ", "Hi"} ELSE {"/start", "/export"}

PrivateEvents ==
    UNION {{Event(MESSAGE_CREATED, "dialog", TRUE, FALSE, uid, name, t, NoLink) :
                name \in NamesOf(uid), t \in TextsOf(uid)} :
           uid \in UserIds}
    \cup {Event(MESSAGE_CREATED, "dialog", TRUE, TRUE, 1, "Bot", t, NoLink) :
        t \in {"/start", "Hi"}}

OtherChatEvents ==
    {Event(MESSAGE_CREATED, "other", FALSE, FALSE, 1, "Alice", "Hi", l) :
        l \in {NoLink, [type |-> REPLY, mid |-> "m1"]}}

BotStartedEvents ==
    UNION {{Event(BOT_STARTED, "none", FALSE, FALSE, uid, name, "", NoLink) :
                name \in NamesOf(uid)} : uid \in UserIds}

UnknownEvents ==
    {Event("message_edited", SupportChatId, FALSE, FALSE, 1, "Alice", "Hi", NoLink)}

Events ==
    SupportEvents \cup PrivateEvents \cup OtherChatEvents
        \cup BotStartedEvents \cup UnknownEvents

(***************************************************************************)
(* Initial state: an empty database, whose file has any of the optional    *)
(* columns, at second 0.                                                   *)
(***************************************************************************)
Init ==
    /\ schema \in {CreatedSchema, MigratedSchema}
    /\ users = <<>>
    /\ messages = <<>>
    /\ mappings = <<>>
    /\ now = 0
    /\ ev = NoEvent
    /\ scenario = "none"
    /\ sent = <<>>
    /\ exported = FALSE
    /\ exc = "none"
    /\ call = [op |-> "none"]
    /\ ret = None
    /\ is_running = FALSE
    /\ pc = "off"
    /\ last_marker = NoMarker
    /\ updates = <<>>
    /\ fetched = <<>>
    /\ handled = <<>>
    /\ last_poll = "none"
    /\ states = <<>>
    /\ jobs = <<>>

Idle == ev = NoEvent /\ call.op = "none"

(***************************************************************************)
(* Spec: the bot.                                                          *)
(***************************************************************************)
\* UpdateHandler.handle_update(e): what one call does to the store, with
\* the gateway calls it makes and the exception that leaves it.
HandleUpdate(e, gw, gw2, mid) ==
    LET w0 == [users |-> users, messages |-> messages, mappings |-> mappings,
               sent |-> <<>>, exported |-> FALSE, scenario |-> "none",
               exc |-> "none"]
        w == handle_update(w0, schema, e, gw, gw2, mid, now)
    IN  /\ Idle
        /\ Len(w.messages) <= MaxMessages
        \* an outcome no call consumed is left at its default
        /\ gw # "ok" => Len(w.sent) >= 1
        /\ gw2 # "ok" => Len(w.sent) >= 2 /\ gw2 = "MaxApiHttpError"
        /\ w.exported => gw # "MaxApiError"
        /\ mid # "m1" => w.scenario = "user_message" /\ gw = "ok" /\ w.sent # <<>>
        /\ users' = w.users
        /\ messages' = w.messages
        /\ mappings' = w.mappings
        /\ sent' = w.sent
        /\ exported' = w.exported
        /\ scenario' = w.scenario
        /\ exc' = w.exc
        /\ ev' = e
        /\ UNCHANGED <<schema, now, call, ret>>

\* UpdateHandler.handle_update(e), called with any event.
Route(e, gw, gw2, mid) ==
    /\ HandleUpdate(e, gw, gw2, mid)
    /\ UNCHANGED <<pollvars, adminvars>>

\* The event boundary of BotService._poll_updates: handle_update has
\* returned, or its exception was caught and logged; the loop moves on.
EventBoundary ==
    /\ ev # NoEvent
    /\ ev' = NoEvent
    /\ scenario' = "none"
    /\ sent' = <<>>
    /\ exported' = FALSE
    /\ exc' = "none"
    /\ UNCHANGED <<schema, users, messages, mappings, now, call, ret>>
    /\ UNCHANGED <<pollvars, adminvars>>

\* UserService.save_phone_number.
SavePhoneNumber(uid, phone) ==
    LET r == update_phone_number(users, schema, uid, phone)
    IN  /\ Idle
        /\ r.exc = "none"
        /\ users' = r.users
        /\ UNCHANGED <<schema, messages, mappings, now, ev, scenario, sent,
                       exported, exc, call, ret>>
        /\ UNCHANGED <<pollvars, adminvars>>

\* One second passes.
Tick ==
    /\ Idle
    /\ now < MaxTime
    /\ now' = now + 1
    /\ UNCHANGED <<schema, users, messages, mappings, ev, scenario, sent,
                   exported, exc, call, ret>>
    /\ UNCHANGED <<pollvars, adminvars>>

Next ==
    \/ \E e \in Events, gw \in GatewayOutcomes, gw2 \in GatewayOutcomes,
          mid \in {"m1", NoMid} : Route(e, gw, gw2, mid)
    \/ EventBoundary
    \/ \E uid \in UserIds, phone \in Phones : SavePhoneNumber(uid, phone)
    \/ Tick

Spec == Init /\ [][Next]_vars

(***************************************************************************)
(* SpecStore: the message repository called directly.                      *)
(***************************************************************************)
IntResult(n) == [kind |-> "int", value |-> n]

\* SQLiteMessageRepository.save_message
StoreSaveMessage(uid, direction, text, operator_name) ==
    /\ Idle
    /\ Len(messages) < MaxStored
    /\ messages' = save_message(messages, uid, text, direction, operator_name, now)
    /\ call' = [op |-> "save_message", user_id |-> uid, direction |-> direction]
    /\ ret' = IntResult(Len(messages) + 1)
    /\ exc' = "none"
    /\ UNCHANGED <<schema, users, mappings, now, ev, scenario, sent, exported>>
    /\ UNCHANGED <<pollvars, adminvars>>

\* SaveMapping(mid, uid, name, text): a MessageMappingCreate is built, with
\* the question text as MessageService.forward_to_support passes it or with
\* the declared fields alone, and given to
\* SQLiteMessageRepository.save_mapping.
StoreSaveMapping(mid, uid, name, text, withQuestion) ==
    LET made == Construct(MessageMappingCreateFields,
                    IF withQuestion
                    THEN [message_id |-> mid, user_id |-> uid,
                          user_name |-> name, question_text |-> text]
                    ELSE [message_id |-> mid, user_id |-> uid,
                          user_name |-> name])
        r == IF made.exc # "none"
             THEN [mappings |-> mappings, exc |-> made.exc, ret |-> None]
             ELSE save_mapping(mappings, schema, made.obj, now)
    IN  /\ Idle
        /\ mappings' = r.mappings
        /\ call' = [op |-> "save_mapping", message_id |-> mid, user_id |-> uid,
                    user_name |-> name, question_text |-> text]
        /\ ret' = r.ret
        /\ exc' = r.exc
        /\ UNCHANGED <<schema, users, messages, now, ev, scenario, sent, exported>>
        /\ UNCHANGED <<pollvars, adminvars>>

\* SQLiteMessageRepository.get_mapping_by_message_id
StoreGetMapping(mid) ==
    LET r == get_mapping_by_message_id(mappings, schema, mid)
    IN  /\ Idle
        /\ call' = [op |-> "get_mapping", message_id |-> mid]
        /\ ret' = r.ret
        /\ exc' = r.exc
        /\ UNCHANGED <<schema, users, messages, mappings, now, ev, scenario,
                       sent, exported>>
        /\ UNCHANGED <<pollvars, adminvars>>

\* MessageService.count_replies_for_question
StoreCountReplies(uid) ==
    /\ Idle
    /\ call' = [op |-> "count_replies", user_id |-> uid]
    /\ ret' = IntResult(count_replies_since_last_user_message(messages, uid))
    /\ exc' = "none"
    /\ UNCHANGED <<schema, users, messages, mappings, now, ev, scenario, sent,
                   exported>>
    /\ UNCHANGED <<pollvars, adminvars>>

\* The call has returned or raised; the caller goes on.
Return ==
    /\ call.op # "none"
    /\ call' = [op |-> "none"]
    /\ ret' = None
    /\ exc' = "none"
    /\ UNCHANGED <<schema, users, messages, mappings, now, ev, scenario, sent,
                   exported>>
    /\ UNCHANGED <<pollvars, adminvars>>

NextStore ==
    \/ \E uid \in UserIds : StoreSaveMessage(uid, FROM_USER, "Hi", NoOperator)
    \/ \E uid \in UserIds, op \in OperatorNames :
          StoreSaveMessage(uid, TO_USER, "Hello", op)
    \/ \E mid \in MessageIds, uid \in UserIds, text \in {"Hi", "Bye"},
          withQuestion \in BOOLEAN :
          \E name \in NamesOf(uid) :
              StoreSaveMapping(mid, uid, name, text, withQuestion)
    \/ \E mid \in MessageIds : StoreGetMapping(mid)
    \/ \E uid \in UserIds : StoreCountReplies(uid)
    \/ Return
    \/ Tick

SpecStore == Init /\ [][NextStore]_vars

(***************************************************************************)
(* SpecPoll: BotService.start, the long-polling loop.  pc is "off" before  *)
(* start(), "poll" at the head of the while loop, "handle" inside the for  *)
(* loop of _poll_updates, "sleep" in time.sleep(error_retry_delay) and     *)
(* "exited" once start() has been left.                                    *)
(***************************************************************************)
Markers == {"k1", "k2"}

\* Events a batch is made of: a question of user 1, an operator's reply to
\* forwarded message m1, a start command of user 2.
BatchEvents ==
    {Event(MESSAGE_CREATED, "dialog", TRUE, FALSE, 1, "Alice", "Hi", NoLink),
     Event(MESSAGE_CREATED, SupportChatId, FALSE, FALSE, 1, "Olga", "Hi",
           [type |-> REPLY, mid |-> "m1"]),
     Event(MESSAGE_CREATED, "dialog", TRUE, FALSE, 2, "Bob", "/start", NoLink)}

\* response.get("updates", []): any list of at most MaxBatch events
Batches == UNION {[1..n -> BatchEvents] : n \in 0..MaxBatch}

\* A variant that walks the list from its end.
LastUpdate(us) == us[Len(us)]

\* for update in updates: the list is walked from its first element.
NextUpdate(us) == Head(us)

RestUpdates(us) == Tail(us)

\* BotService.start up to the while loop.
Start ==
    /\ pc = "off"
    /\ is_running' = TRUE
    /\ pc' = "poll"
    /\ UNCHANGED <<schema, users, messages, mappings, now, ev, scenario, sent,
                   exported, exc, call, ret, last_marker, updates, fetched,
                   handled, last_poll, adminvars>>

\* BotService.stop, called from outside the loop.
Stop ==
    /\ pc \in {"poll", "handle", "sleep"}
    /\ is_running
    /\ is_running' = FALSE
    /\ UNCHANGED <<schema, users, messages, mappings, now, ev, scenario, sent,
                   exported, exc, call, ret, pc, last_marker, updates, fetched,
                   handled, last_poll, adminvars>>

\* while self._is_running: the flag is down, start() returns.
LoopExit ==
    /\ pc = "poll"
    /\ ~is_running
    /\ pc' = "exited"
    /\ UNCHANGED <<schema, users, messages, mappings, now, ev, scenario, sent,
                   exported, exc, call, ret, is_running, last_marker, updates,
                   fetched, handled, last_poll, adminvars>>

\* A variant that does not store the marker of the response.
GetUpdatesKeepsMarker(batch, marker) ==
    /\ pc = "poll"
    /\ is_running
    /\ last_poll' = "ok"
    /\ updates' = batch
    /\ fetched' = batch
    /\ handled' = <<>>
    /\ pc' = IF batch = <<>> THEN "poll" ELSE "handle"
    /\ UNCHANGED <<schema, users, messages, mappings, now, ev, scenario, sent,
                   exported, exc, call, ret, is_running, last_marker,
                   adminvars>>

\* _poll_updates up to the for loop: get_updates returns a batch and a
\* marker, which is stored before any event is handled.
GetUpdates(batch, marker) ==
    /\ pc = "poll"
    /\ is_running
    /\ last_poll' = "ok"
    /\ last_marker' = marker
    /\ updates' = batch
    /\ fetched' = batch
    /\ handled' = <<>>
    /\ pc' = IF batch = <<>> THEN "poll" ELSE "handle"
    /\ UNCHANGED <<schema, users, messages, mappings, now, ev, scenario, sent,
                   exported, exc, call, ret, is_running, adminvars>>

\* A variant in which an error of get_updates other than a timeout ends
\* the loop.
GetUpdatesFailsFatal(error) ==
    /\ pc = "poll"
    /\ is_running
    /\ last_poll' = error
    /\ pc' = IF error = "MaxApiTimeoutError" THEN "poll" ELSE "exited"
    /\ is_running' = (error = "MaxApiTimeoutError")
    /\ UNCHANGED <<schema, users, messages, mappings, now, ev, scenario, sent,
                   exported, exc, call, ret, last_marker, updates, fetched,
                   handled, adminvars>>

\* get_updates raises: a timeout goes straight to the next iteration, any
\* other MaxApiError or Exception to time.sleep(error_retry_delay).
GetUpdatesFails(error) ==
    /\ pc = "poll"
    /\ is_running
    /\ last_poll' = error
    /\ pc' = IF error = "MaxApiTimeoutError" THEN "poll" ELSE "sleep"
    /\ UNCHANGED <<schema, users, messages, mappings, now, ev, scenario, sent,
                   exported, exc, call, ret, is_running, last_marker, updates,
                   fetched, handled, adminvars>>

\* time.sleep(error_retry_delay) returns.
Wake ==
    /\ pc = "sleep"
    /\ pc' = "poll"
    /\ UNCHANGED <<schema, users, messages, mappings, now, ev, scenario, sent,
                   exported, exc, call, ret, is_running, last_marker, updates,
                   fetched, handled, last_poll, adminvars>>

\* The body of the for loop: handle_update of the next event of the batch.
PollHandle(gw, gw2, mid) ==
    /\ pc = "handle"
    /\ updates # <<>>
    /\ HandleUpdate(NextUpdate(updates), gw, gw2, mid)
    /\ UNCHANGED <<pollvars, adminvars>>

\* A variant without the try of the for loop: an exception of handle_update
\* leaves _poll_updates and the rest of the batch is dropped.
PollBoundaryRaises ==
    /\ pc = "handle"
    /\ ev # NoEvent
    /\ handled' = Append(handled, [event |-> ev, exc |-> exc, sent |-> sent])
    /\ updates' = IF exc = "none" THEN RestUpdates(updates) ELSE <<>>
    /\ pc' = IF exc # "none" THEN "sleep"
             ELSE IF RestUpdates(updates) = <<>> THEN "poll" ELSE "handle"
    /\ ev' = NoEvent
    /\ scenario' = "none"
    /\ sent' = <<>>
    /\ exported' = FALSE
    /\ exc' = "none"
    /\ UNCHANGED <<schema, users, messages, mappings, now, call, ret,
                   is_running, last_marker, fetched, last_poll, adminvars>>

\* handle_update has returned (then time.sleep(message_delay)) or raised
\* an Exception, which is logged; the for loop goes on, and _poll_updates
\* returns after the last event.
PollBoundary ==
    /\ pc = "handle"
    /\ ev # NoEvent
    /\ handled' = Append(handled, [event |-> ev, exc |-> exc, sent |-> sent])
    /\ updates' = RestUpdates(updates)
    /\ pc' = IF RestUpdates(updates) = <<>> THEN "poll" ELSE "handle"
    /\ ev' = NoEvent
    /\ scenario' = "none"
    /\ sent' = <<>>
    /\ exported' = FALSE
    /\ exc' = "none"
    /\ UNCHANGED <<schema, users, messages, mappings, now, call, ret,
                   is_running, last_marker, fetched, last_poll, adminvars>>

\* KeyboardInterrupt inside _poll_updates (in get_updates or between two
\* events): except KeyboardInterrupt calls stop() and breaks.
Interrupt ==
    /\ pc \in {"poll", "handle"}
    /\ is_running
    /\ is_running' = FALSE
    /\ pc' = "exited"
    /\ UNCHANGED <<schema, users, messages, mappings, now, ev, scenario, sent,
                   exported, exc, call, ret, last_marker, updates, fetched,
                   handled, last_poll, adminvars>>

\* KeyboardInterrupt in time.sleep(error_retry_delay): raised inside an
\* except clause, it leaves start() without stop().
InterruptSleep ==
    /\ pc = "sleep"
    /\ pc' = "exited"
    /\ UNCHANGED <<schema, users, messages, mappings, now, ev, scenario, sent,
                   exported, exc, call, ret, is_running, last_marker, updates,
                   fetched, handled, last_poll, adminvars>>

NextPoll ==
    \/ Start
    \/ Stop
    \/ LoopExit
    \/ \E batch \in Batches, marker \in Markers : GetUpdates(batch, marker)
    \/ \E error \in {"MaxApiTimeoutError", "MaxApiError", "Exception"} :
          GetUpdatesFails(error)
    \/ Wake
    \/ \E gw \in GatewayOutcomes, gw2 \in GatewayOutcomes,
          mid \in {"m1", NoMid} : PollHandle(gw, gw2, mid)
    \/ PollBoundary
    \/ Interrupt
    \/ InterruptSleep

SpecPoll == Init /\ [][NextPoll]_vars

(***************************************************************************)
(* SpecMarker: the polling loop against a gateway that keeps the events in *)
(* the order they occurred and answers get_updates(marker) with the events *)
(* that follow the position the marker stands for, and with the marker of  *)
(* the position after them.  A request without marker is answered from the *)
(* start of what the bot has not taken yet.                                *)
(***************************************************************************)
\* the events at the gateway: a question of user 1, an operator's reply to
\* forwarded message m1, a start command of user 2, the question once more
StreamEvents ==
    <<Event(MESSAGE_CREATED, "dialog", TRUE, FALSE, 1, "Alice", "Hi", NoLink),
      Event(MESSAGE_CREATED, SupportChatId, FALSE, FALSE, 1, "Olga", "Hi",
            [type |-> REPLY, mid |-> "m1"]),
      Event(MESSAGE_CREATED, "dialog", TRUE, FALSE, 2, "Bob", "/start", NoLink),
      Event(MESSAGE_CREATED, "dialog", TRUE, FALSE, 1, "Alice", "Hi", NoLink)>>

\* the marker of the position after the p-th event
StreamMarkers == <<"k1", "k2", "k3", "k4">>

\* the number of events that precede the position of a marker
Position(marker) ==
    IF marker = NoMarker THEN 0
    ELSE CHOOSE p \in DOMAIN StreamMarkers : StreamMarkers[p] = marker

MarkerAt(p) == IF p = 0 THEN NoMarker ELSE StreamMarkers[p]

\* response.json() of GET /updates with params["marker"] = marker: up to n
\* events and the marker after the last of them
Served(marker, n) ==
    LET from == Position(marker)
        to == IF from + n <= Len(StreamEvents) THEN from + n
              ELSE Len(StreamEvents)
    IN  [updates |-> SubSeq(StreamEvents, from + 1, to), marker |-> MarkerAt(to)]

\* self._api_client.get_updates(marker=self._last_marker, ...) is answered
ServedPoll(n) ==
    LET response == Served(last_marker, n)
    IN  GetUpdates(response.updates, response.marker)

NextMarker ==
    \/ Start
    \/ \E n \in 0..MaxBatch : ServedPoll(n)
    \/ \E error \in {"MaxApiTimeoutError", "MaxApiError", "Exception"} :
          GetUpdatesFails(error)
    \/ Wake
    \/ \E gw \in GatewayOutcomes, gw2 \in GatewayOutcomes,
          mid \in {"m1", NoMid} : PollHandle(gw, gw2, mid)
    \/ PollBoundary

SpecMarker == Init /\ [][NextMarker]_vars

(***************************************************************************)
(* The administrator panel: AdminStateManager and AdminService.            *)
(***************************************************************************)
\* Settings.admin_user_ids: the ids parsed from ADMIN_USER_IDS
AdminIds == {1}

\* message texts an administrator panel user sends; "" is a message without
\* text
AdminTexts == {"Hello", ""}

\* AdminState
IDLE == "idle"
WAITING_NOTIFICATION_TEXT == "waiting_notification_text"
CONFIRMING_NOTIFICATION == "confirming_notification"
AdminStates == {IDLE, WAITING_NOTIFICATION_TEXT, CONFIRMING_NOTIFICATION}

\* AdminContext.notification_text = None
NoText == "<None>"

\* AdminContext: the fields of the dataclass, state and notification_text
AdminContext(state, text) == [state |-> state, notification_text |-> text]

\* the methods AdminStateManager defines
StateManagerMethods ==
    {"get_state", "set_state", "reset_state", "save_notification_text",
     "get_notification_text", "is_waiting_notification_text",
     "is_confirming_notification"}

\* the parameters of AdminStateManager.set_state(self, user_id, state)
SetStateParameters == {"user_id", "state"}

\* context = self._states.get(user_id); context.state if context else IDLE
get_state(st, uid) == IF uid \in DOMAIN st THEN st[uid].state ELSE IDLE

\* a new context has no text; an existing one keeps its text
set_state(st, uid, state) ==
    IF uid \notin DOMAIN st
    THEN (uid :> AdminContext(state, NoText)) @@ st
    ELSE [st EXCEPT ![uid].state = state]

\* if user_id in self._states: del self._states[user_id]
reset_state(st, uid) == [u \in DOMAIN st \ {uid} |-> st[u]]

\* stores the text and sets CONFIRMING_NOTIFICATION, whatever the state was
save_notification_text(st, uid, text) ==
    IF uid \notin DOMAIN st
    THEN (uid :> AdminContext(CONFIRMING_NOTIFICATION, text)) @@ st
    ELSE [st EXCEPT ![uid].notification_text = text,
                    ![uid].state = CONFIRMING_NOTIFICATION]

\* context.notification_text if context else None
get_notification_text(st, uid) ==
    IF uid \in DOMAIN st THEN st[uid].notification_text ELSE NoText

is_waiting_notification_text(st, uid) ==
    get_state(st, uid) = WAITING_NOTIFICATION_TEXT

\* the methods IMaxApiClient declares and MaxApiClient defines
GatewayMethods ==
    {"get_updates", "send_message_to_user", "send_message_to_chat",
     "upload_file", "send_file_to_chat", "close"}

\* the payloads of the inline buttons, AdminCallback.<NAME>.value, as
\* handle_callback compares them
SEND_NOTIFICATION == "send_notification"
BACK_TO_MAIN == "back_to_main"
NOTIFICATION_TEST == "notification_test"
NOTIFICATION_ALL == "notification_all"
CONFIRM_SEND == "confirm_send"
CANCEL_SEND == "cancel_send"
AdminCallbacks ==
    {SEND_NOTIFICATION, BACK_TO_MAIN, NOTIFICATION_TEST, NOTIFICATION_ALL,
     CONFIRM_SEND, CANCEL_SEND}
\* what a callback event can carry: a button's payload or anything else
Payloads == AdminCallbacks \cup {"unknown"}

\* NotificationTarget, as _start_notification_creation receives it
ADMINS == "admins"
ALL_USERS == "all_users"

\* One call of the gateway by the panel: the method, the user or callback it
\* addresses, what it shows and its outcome.
AdminSent(op, to, kind, text, result) ==
    [op |-> op, to |-> to, kind |-> kind, text |-> text, result |-> result]

\* The panel's view of one handler run: the contexts, the jobs started, the
\* calls made and the last exception an except clause logged.
AdminWork(st, js) == [states |-> st, jobs |-> js, sent |-> <<>>, exc |-> "none"]

\* self._api_client.<method>(...) inside a try whose except logs: a method the
\* client does not have raises AttributeError before anything is sent, a
\* failing request raises the gateway's error.
GatewayCall(a, method, to, kind, text, gw) ==
    IF method \notin GatewayMethods
    THEN [a EXCEPT !.exc = "AttributeError"]
    ELSE [a EXCEPT !.sent = Append(@, AdminSent(method, to, kind, text, gw)),
                   !.exc = IF gw = "ok" THEN @ ELSE gw]

\* AdminService.is_admin
is_admin(uid) == uid \in AdminIds

\* AdminService.send_access_denied
send_access_denied(a, uid, gw) ==
    GatewayCall(a, "send_message_to_user", uid, "access_denied", "", gw)

\* AdminService.send_main_menu
send_main_menu(a, uid, gw) ==
    GatewayCall(a, "send_message_with_keyboard", uid, "main_menu", "", gw)

\* AdminService._update_to_main_menu
update_to_main_menu(a, callback_id, gw) ==
    GatewayCall(a, "answer_callback", callback_id, "main_menu", "", gw)

\* AdminService._update_to_notification_menu
update_to_notification_menu(a, callback_id, gw) ==
    GatewayCall(a, "answer_callback", callback_id, "notification_menu", "", gw)

\* AdminService._start_notification_creation: set_state is called with the
\* keyword target_type, which it does not accept; the TypeError is logged by
\* the except clause and nothing after the call runs.
start_notification_creation(a, callback_id, uid, target_type, gw) ==
    IF "target_type" \notin SetStateParameters
    THEN [a EXCEPT !.exc = "TypeError"]
    ELSE GatewayCall([a EXCEPT !.states = set_state(@, uid,
                                              WAITING_NOTIFICATION_TEXT)],
                     "answer_callback", callback_id, "instruction",
                     target_type, gw)

\* AdminService._send_notification_preview: the first statement of the try
\* asks the state manager for get_target_type; the AttributeError is logged by
\* the except clause and the preview is not built.
send_notification_preview(a, uid, text, gw) ==
    IF "get_target_type" \notin StateManagerMethods
    THEN [a EXCEPT !.exc = "AttributeError"]
    ELSE GatewayCall(a, "send_message_with_keyboard", uid, "preview", text, gw)

\* Variant: the state manager answers get_target_type, so that a confirm with
\* a stored text goes on to the acknowledgement, reset_state and the thread.
confirm_and_send_notification_with_target(a, callback_id, uid, gw) ==
    LET notification_text == get_notification_text(a.states, uid)
    IN  IF notification_text \in {NoText, ""}
        THEN GatewayCall(a, "answer_callback", callback_id, "no_text", "", gw)
        ELSE [a EXCEPT
                !.states = reset_state(@, uid),
                !.jobs = Append(@, [initiator |-> uid,
                                    text |-> notification_text])]

\* AdminService._confirm_and_send_notification: without a stored text (None
\* or empty) the error notice is answered and the method returns; otherwise
\* get_target_type is asked for before the acknowledgement, reset_state and
\* the thread, and its AttributeError is logged by the except clause.
confirm_and_send_notification(a, callback_id, uid, gw) ==
    LET notification_text == get_notification_text(a.states, uid)
    IN  IF notification_text \in {NoText, ""}
        THEN GatewayCall(a, "answer_callback", callback_id, "no_text", "", gw)
        ELSE IF "get_target_type" \notin StateManagerMethods
        THEN [a EXCEPT !.exc = "AttributeError"]
        ELSE LET acked == GatewayCall(a, "answer_callback", callback_id,
                                      "started", notification_text, gw)
             IN  IF acked.exc # a.exc THEN acked
                 ELSE [acked EXCEPT
                         !.states = reset_state(@, uid),
                         !.jobs = Append(@, [initiator |-> uid,
                                             text |-> notification_text])]

\* AdminService._cancel_notification
cancel_notification(a, callback_id, uid, gw) ==
    update_to_notification_menu([a EXCEPT !.states = reset_state(@, uid)],
                                callback_id, gw)

\* Variant: the state is reset only when the main menu was redrawn.
handle_callback_reset_after_redraw(a, uid, callback_id, payload, gw) ==
    IF ~is_admin(uid)
    THEN GatewayCall(a, "answer_callback", callback_id, "access_denied", "", gw)
    ELSE CASE payload = SEND_NOTIFICATION ->
                  update_to_notification_menu(a, callback_id, gw)
           [] payload = BACK_TO_MAIN ->
                  LET shown == update_to_main_menu(a, callback_id, gw)
                  IN  IF shown.exc # "none" THEN shown
                      ELSE [shown EXCEPT !.states = reset_state(@, uid)]
           [] payload = NOTIFICATION_TEST ->
                  start_notification_creation(a, callback_id, uid, ADMINS, gw)
           [] payload = NOTIFICATION_ALL ->
                  start_notification_creation(a, callback_id, uid, ALL_USERS,
                                              gw)
           [] payload = CONFIRM_SEND ->
                  confirm_and_send_notification(a, callback_id, uid, gw)
           [] payload = CANCEL_SEND ->
                  cancel_notification(a, callback_id, uid, gw)
           [] OTHER -> a

\* AdminService.handle_callback
handle_callback(a, uid, callback_id, payload, gw) ==
    IF ~is_admin(uid)
    THEN GatewayCall(a, "answer_callback", callback_id, "access_denied", "", gw)
    ELSE CASE payload = SEND_NOTIFICATION ->
                  update_to_notification_menu(a, callback_id, gw)
           [] payload = BACK_TO_MAIN ->
                  LET shown == update_to_main_menu(a, callback_id, gw)
                  IN  [shown EXCEPT !.states = reset_state(@, uid)]
           [] payload = NOTIFICATION_TEST ->
                  start_notification_creation(a, callback_id, uid, ADMINS, gw)
           [] payload = NOTIFICATION_ALL ->
                  start_notification_creation(a, callback_id, uid, ALL_USERS,
                                              gw)
           [] payload = CONFIRM_SEND ->
                  confirm_and_send_notification(a, callback_id, uid, gw)
           [] payload = CANCEL_SEND ->
                  cancel_notification(a, callback_id, uid, gw)
           [] OTHER -> a

\* AdminService.handle_notification_text: no check of is_admin and none of the
\* state
handle_notification_text(a, uid, text, gw) ==
    send_notification_preview(
        [a EXCEPT !.states = save_notification_text(@, uid, text)],
        uid, text, gw)

\* the callback id of the button a user pressed
CallbackOf(uid) == IF uid = 1 THEN "cb1" ELSE "cb2"

AdminCall(op, uid, payload, text) ==
    [op |-> op, user_id |-> uid, payload |-> payload, text |-> text]

\* One entry point of the panel has run to its return.
AdminDone(a, c) ==
    /\ states' = a.states
    /\ jobs' = a.jobs
    /\ sent' = a.sent
    /\ exc' = a.exc
    /\ call' = c
    /\ UNCHANGED <<schema, users, messages, mappings, now, ev, scenario,
                   exported, ret, pollvars>>

\* HandleAdminCallback: AdminService.handle_callback
HandleAdminCallback(uid, payload, gw) ==
    /\ Idle
    /\ AdminDone(handle_callback(AdminWork(states, jobs), uid, CallbackOf(uid),
                                 payload, gw),
                 AdminCall("handle_callback", uid, payload, ""))

\* HandleAdminText: AdminService.handle_notification_text
HandleAdminText(uid, text, gw) ==
    /\ Idle
    /\ AdminDone(handle_notification_text(AdminWork(states, jobs), uid, text, gw),
                 AdminCall("handle_notification_text", uid, "", text))

\* AdminService.send_main_menu
SendMainMenu(uid, gw) ==
    /\ Idle
    /\ AdminDone(send_main_menu(AdminWork(states, jobs), uid, gw),
                 AdminCall("send_main_menu", uid, "", ""))

\* AdminService.send_access_denied
SendAccessDenied(uid, gw) ==
    /\ Idle
    /\ AdminDone(send_access_denied(AdminWork(states, jobs), uid, gw),
                 AdminCall("send_access_denied", uid, "", ""))

\* AdminStateManager.set_state(user_id, state)
SetState(uid, state) ==
    /\ Idle
    /\ AdminDone([AdminWork(states, jobs) EXCEPT
                     !.states = set_state(@, uid, state)],
                 AdminCall("set_state", uid, "", state))

\* the caller has the entry point's return
AdminReturn ==
    /\ ev = NoEvent
    /\ call.op # "none"
    /\ call' = [op |-> "none"]
    /\ sent' = <<>>
    /\ exc' = "none"
    /\ UNCHANGED <<schema, users, messages, mappings, now, ev, scenario,
                   exported, ret, pollvars, adminvars>>

NextAdmin ==
    \/ \E uid \in UserIds, payload \in Payloads, gw \in GatewayOutcomes :
          HandleAdminCallback(uid, payload, gw)
    \/ \E uid \in UserIds, text \in AdminTexts, gw \in GatewayOutcomes :
          HandleAdminText(uid, text, gw)
    \/ \E uid \in UserIds, gw \in GatewayOutcomes : SendMainMenu(uid, gw)
    \/ \E uid \in UserIds, gw \in GatewayOutcomes : SendAccessDenied(uid, gw)
    \/ \E uid \in UserIds, state \in AdminStates : SetState(uid, state)
    \/ AdminReturn

SpecAdmin == Init /\ [][NextAdmin]_vars

(***************************************************************************)
(* The broadcast job: AdminService._send_notifications_async.              *)
(***************************************************************************)
\* user ids a notification is addressed to
RecipientIds == {1, 2, 3}

\* lists of user ids as they are stored; ADMIN_USER_IDS is not deduplicated
StoredLists == {<<1, 2, 3, 2>>, <<2, 2, 1, 3>>}

\* recipients: list[int], the first ids of a stored list
RecipientLists ==
    {SubSeq(ids, 1, n) : ids \in StoredLists, n \in 0..MaxRecipients}

\* Settings.notification_progress_interval = int(NOTIFICATION_PROGRESS_INTERVAL)
Intervals == {0, 1, 2}

BroadcastTexts == {"Hello"}

\* what the gateway answers when a send fails: the error code in the text of
\* the response, which MaxApiHttpError carries in its message
SendErrors ==
    {"chat.not.found", "dialog.not.found", "user.not.found", "internal.error"}
SendOutcomes == {"ok"} \cup SendErrors

\* outcome of a message to the initiator
NoticeOutcomes == {"ok", "MaxApiError"}

\* "<code>" in error_message, for error_message = str(e) of a failed send
Contains(error_message, code) == error_message = code

\* ids_preview = ids[:5]
PreviewLimit == 5

\* not_activated[:5] and, beyond five, the number of the others
Preview(ids) ==
    [ids |-> SubSeq(ids, 1, IF Len(ids) > PreviewLimit THEN PreviewLimit
                            ELSE Len(ids)),
     more |-> IF Len(ids) > PreviewLimit THEN Len(ids) - PreviewLimit ELSE 0]

\* One call of send_message_to_user by a job: a notification to a recipient,
\* or a message to the initiator with what its text is built from.
JobSent(kind, to, index, body, result) ==
    [kind |-> kind, to |-> to, index |-> index, body |-> body,
     result |-> result]

\* The locals of one run of _send_notifications_async and the calls it made.
NewJob(initiator_id, notification_text, recipients, progress_interval) ==
    [initiator_id |-> initiator_id,
     notification_text |-> notification_text,
     recipients |-> recipients,
     progress_interval |-> progress_interval,
     pc |-> IF recipients = <<>> THEN "final" ELSE "send",
     index |-> 0,
     sent_count |-> 0,
     not_activated_ids |-> <<>>,
     not_found_ids |-> <<>>,
     delays |-> <<>>,
     log |-> <<>>]

total_recipients(job) == Len(job.recipients)

\* Variant: the counter of the sent is raised after the try, for every
\* recipient.
send_to_recipient_count_all(job, outcome) ==
    LET index == job.index + 1
        recipient_id == job.recipients[index]
        tried == [job EXCEPT
                    !.index = index,
                    !.sent_count = @ + 1,
                    !.pc = IF index < total_recipients(job) THEN "sleep"
                           ELSE "progress",
                    !.log = Append(@, JobSent("notification", recipient_id,
                                index, job.notification_text, outcome))]
    IN  IF outcome = "ok"
        THEN tried
        ELSE IF \/ Contains(outcome, "dialog.not.found")
                \/ Contains(outcome, "chat.not.found")
        THEN [tried EXCEPT !.not_activated_ids = Append(@, recipient_id)]
        ELSE IF Contains(outcome, "user.not.found")
        THEN [tried EXCEPT !.not_found_ids = Append(@, recipient_id)]
        ELSE tried

\* Variant: a failed send ends the loop.
send_to_recipient_stop_on_error(job, outcome) ==
    LET index == job.index + 1
        recipient_id == job.recipients[index]
        tried == [job EXCEPT
                    !.index = index,
                    !.log = Append(@, JobSent("notification", recipient_id,
                                index, job.notification_text, outcome))]
    IN  IF outcome = "ok"
        THEN [tried EXCEPT !.sent_count = @ + 1,
                 !.pc = IF index < total_recipients(job) THEN "sleep"
                        ELSE "progress"]
        ELSE [tried EXCEPT !.pc = "final"]

\* Variant: the job waits after every recipient, the last one too.
send_to_recipient_sleep_always(job, outcome) ==
    LET index == job.index + 1
        recipient_id == job.recipients[index]
        tried == [job EXCEPT
                    !.index = index,
                    !.pc = "sleep",
                    !.log = Append(@, JobSent("notification", recipient_id,
                                index, job.notification_text, outcome))]
    IN  IF outcome = "ok"
        THEN [tried EXCEPT !.sent_count = @ + 1]
        ELSE IF \/ Contains(outcome, "dialog.not.found")
                \/ Contains(outcome, "chat.not.found")
        THEN [tried EXCEPT !.not_activated_ids = Append(@, recipient_id)]
        ELSE IF Contains(outcome, "user.not.found")
        THEN [tried EXCEPT !.not_found_ids = Append(@, recipient_id)]
        ELSE tried

\* One iteration of the loop up to the delay: the send to the next recipient
\* and the classification of its error.
send_to_recipient(job, outcome) ==
    LET index == job.index + 1
        recipient_id == job.recipients[index]
        tried == [job EXCEPT
                    !.index = index,
                    !.pc = IF index < total_recipients(job) THEN "sleep"
                           ELSE "progress",
                    !.log = Append(@, JobSent("notification", recipient_id,
                                index, job.notification_text, outcome))]
    IN  IF outcome = "ok"
        THEN [tried EXCEPT !.sent_count = @ + 1]
        ELSE IF \/ Contains(outcome, "dialog.not.found")
                \/ Contains(outcome, "chat.not.found")
        THEN [tried EXCEPT !.not_activated_ids = Append(@, recipient_id)]
        ELSE IF Contains(outcome, "user.not.found")
        THEN [tried EXCEPT !.not_found_ids = Append(@, recipient_id)]
        ELSE tried

\* time.sleep(self._settings.notification_delay) after the recipient at
\* index, which the job enters only if index < total_recipients
sleep_between(job) ==
    [job EXCEPT !.pc = "progress", !.delays = Append(@, job.index)]

\* Variant: the percentage is that of the delivered only.
percentage_of_delivered(sent_count, total_count, not_activated, not_found) ==
    (sent_count * 100) \div total_count

\* percentage = int((sent_count + len(not_activated) + len(not_found))
\*                  / total_count * 100):
\* the quotient of the float division times 100, cut to an integer, which for
\* the totals of the model (up to 4) is the integer quotient of 100 times the
\* sum by the total
percentage(sent_count, total_count, not_activated, not_found) ==
    ((sent_count + Len(not_activated) + Len(not_found)) * 100)
        \div total_count

\* _send_progress_notification: the text is built from the counters and
\* sent; an error of the send is logged and goes no further.
send_progress_notification(job, is_final, gw) ==
    [job EXCEPT !.log = Append(@, JobSent("progress", job.initiator_id,
             job.index,
             [sent_count |-> job.sent_count,
              total_count |-> total_recipients(job),
              not_activated |-> Len(job.not_activated_ids),
              not_found |-> Len(job.not_found_ids),
              percentage |-> percentage(job.sent_count,
                                 total_recipients(job),
                                 job.not_activated_ids, job.not_found_ids),
              is_final |-> is_final],
             gw))]

\* Variant: the notification after the last recipient is sent twice when the
\* interval divides the number of recipients.
progress_due_twice(index, total, progress_interval) ==
    (IF index % progress_interval = 0 THEN 1 ELSE 0)
        + (IF index = total THEN 1 ELSE 0)

\* how many progress notifications follow the recipient at index:
\* if index % progress_interval == 0 or index == total_recipients
progress_due(index, total, progress_interval) ==
    IF index % progress_interval = 0 \/ index = total THEN 1 ELSE 0

\* Variant: a failure of the loop ends the job without a message.
report_progress_silent(job, gw) ==
    IF job.progress_interval = 0
    THEN [job EXCEPT !.pc = "failed"]
    ELSE LET due == progress_due(job.index, total_recipients(job),
                                 job.progress_interval)
             told == IF due >= 1
                     THEN send_progress_notification(job,
                              job.index = total_recipients(job), gw)
                     ELSE job
             again == IF due >= 2
                      THEN send_progress_notification(told,
                               job.index = total_recipients(job), gw)
                      ELSE told
         IN  [again EXCEPT !.pc = IF job.index < total_recipients(job)
                                  THEN "send" ELSE "final"]

\* The rest of the iteration: index % progress_interval raises
\* ZeroDivisionError for an interval of 0, which leaves the loop for the
\* outer except clause and its message to the initiator; otherwise the
\* progress notification is sent when it is due.
report_progress(job, gw) ==
    IF job.progress_interval = 0
    THEN [job EXCEPT
            !.pc = "failed",
            !.log = Append(@, JobSent("failure", job.initiator_id, job.index,
                                      "ZeroDivisionError", gw))]
    ELSE LET due == progress_due(job.index, total_recipients(job),
                                 job.progress_interval)
             told == IF due >= 1
                     THEN send_progress_notification(job,
                              job.index = total_recipients(job), gw)
                     ELSE job
             again == IF due >= 2
                      THEN send_progress_notification(told,
                               job.index = total_recipients(job), gw)
                      ELSE told
         IN  [again EXCEPT !.pc = IF job.index < total_recipients(job)
                                  THEN "send" ELSE "final"]

\* _send_final_statistics: the text has the delivered count and, for each
\* class of failures that has members, a line with their number; ids_text is
\* computed from the first five ids and put into no line.
final_text(sent_count, total_count, not_activated, not_found) ==
    <<[line |-> "delivered", count |-> sent_count, of |-> total_count]>>
    \o (IF not_activated # <<>>
        THEN <<[line |-> "not_activated", count |-> Len(not_activated)]>>
        ELSE <<>>)
    \o (IF not_found # <<>>
        THEN <<[line |-> "not_found", count |-> Len(not_found)]>>
        ELSE <<>>)

send_final_statistics(job, gw) ==
    [job EXCEPT
       !.pc = "done",
       !.log = Append(@, JobSent("final", job.initiator_id, job.index,
                   final_text(job.sent_count, total_recipients(job),
                              job.not_activated_ids, job.not_found_ids),
                   gw))]

\* every variable but jobs
nojobs ==
    <<schema, users, messages, mappings, now, ev, scenario, sent, exported,
      exc, call, ret, pollvars, states>>

\* RunBroadcast: _send_notifications_async is entered
RunBroadcast(initiator_id, notification_text, recipients, progress_interval) ==
    /\ jobs = <<>>
    /\ jobs' = <<NewJob(initiator_id, notification_text, recipients,
                        progress_interval)>>
    /\ UNCHANGED nojobs

\* Variant: the counter of the sent is an attribute of the service that all
\* jobs share.
JobSendShared(j, outcome) ==
    /\ j \in DOMAIN jobs
    /\ jobs[j].pc = "send"
    /\ jobs' = [k \in DOMAIN jobs |->
                  IF k = j THEN send_to_recipient(jobs[k], outcome)
                  ELSE IF outcome = "ok"
                  THEN [jobs[k] EXCEPT !.sent_count = @ + 1]
                  ELSE jobs[k]]
    /\ UNCHANGED nojobs

\* Variant: the job takes its next recipient from the users table.
JobSendRegistered(j, outcome) ==
    /\ j \in DOMAIN jobs
    /\ jobs[j].pc = "send"
    /\ jobs' = [jobs EXCEPT ![j] =
                  LET listed == {u \in DOMAIN users :
                                   \A i \in DOMAIN @.recipients :
                                       @.recipients[i] # u}
                  IN  IF listed = {} THEN send_to_recipient(@, outcome)
                      ELSE send_to_recipient(
                               [@ EXCEPT !.recipients =
                                   Append(@, CHOOSE u \in listed : TRUE)],
                               outcome)]
    /\ UNCHANGED nojobs

\* the send to the next recipient
JobSend(j, outcome) ==
    /\ j \in DOMAIN jobs
    /\ jobs[j].pc = "send"
    /\ jobs' = [jobs EXCEPT ![j] = send_to_recipient(@, outcome)]
    /\ UNCHANGED nojobs

\* Variant: a job that sleeps is cancelled.
JobWakeCancelled(j) ==
    /\ j \in DOMAIN jobs
    /\ jobs[j].pc = "sleep"
    /\ jobs' = [jobs EXCEPT ![j].pc = "cancelled"]
    /\ UNCHANGED nojobs

\* time.sleep(self._settings.notification_delay) returns
JobWake(j) ==
    /\ j \in DOMAIN jobs
    /\ jobs[j].pc = "sleep"
    /\ jobs' = [jobs EXCEPT ![j] = sleep_between(@)]
    /\ UNCHANGED nojobs

\* the end of the iteration
JobProgress(j, gw) ==
    /\ j \in DOMAIN jobs
    /\ jobs[j].pc = "progress"
    /\ jobs' = [jobs EXCEPT ![j] = report_progress(@, gw)]
    /\ UNCHANGED nojobs

\* after the loop
JobFinal(j, gw) ==
    /\ j \in DOMAIN jobs
    /\ jobs[j].pc = "final"
    /\ jobs' = [jobs EXCEPT ![j] = send_final_statistics(@, gw)]
    /\ UNCHANGED nojobs

\* one step of one of the jobs, for the outcomes the gateway can give
JobStepWith(outcomes, notices) ==
    \E j \in 1..MaxJobs :
       \/ \E outcome \in outcomes : JobSend(j, outcome)
       \/ JobWake(j)
       \/ \E gw \in notices : JobProgress(j, gw)
       \/ \E gw \in notices : JobFinal(j, gw)

JobStep == JobStepWith(SendOutcomes, NoticeOutcomes)

NextBroadcast ==
    \/ \E initiator_id \in AdminIds, text \in BroadcastTexts,
          recipients \in RecipientLists, interval \in Intervals :
          RunBroadcast(initiator_id, text, recipients, interval)
    \/ JobStep

SpecBroadcast == Init /\ [][NextBroadcast]_vars

\* the thread of a job is scheduled again and again until the job returns
SpecBroadcastLive == SpecBroadcast /\ WF_vars(JobStep)

\* the runs that are started while another may be running
ConcurrentRuns ==
    {[recipients |-> <<1, 2>>, progress_interval |-> 1],
     [recipients |-> <<2>>, progress_interval |-> 2],
     [recipients |-> <<3, 1>>, progress_interval |-> 0]}

\* the initiators of such runs: two administrators
Initiators == {1, 2}

\* _send_notifications_async is entered while other runs of it are under way
StartJob(initiator_id, notification_text, run) ==
    /\ Len(jobs) < MaxJobs
    /\ jobs' = Append(jobs, NewJob(initiator_id, notification_text,
                                   run.recipients, run.progress_interval))
    /\ UNCHANGED nojobs

NextJobs ==
    \/ \E initiator_id \in Initiators, text \in BroadcastTexts,
          run \in ConcurrentRuns : StartJob(initiator_id, text, run)
    \/ JobStepWith({"ok", "chat.not.found"}, {"ok"})

SpecJobs == Init /\ [][NextJobs]_vars

(***************************************************************************)
(* SpecLoopAndJob: one broadcast job and, while it runs, the event loop    *)
(* routing the events that register users.                                 *)
(***************************************************************************)
\* a job has been entered and has not returned
Running == \E j \in DOMAIN jobs : jobs[j].pc \notin {"done", "failed"}

\* _send_notifications_async is entered between two events of the loop
LaunchJob(initiator_id, notification_text, run) ==
    /\ Idle
    /\ RunBroadcast(initiator_id, notification_text, run.recipients,
                    run.progress_interval)

\* UpdateHandler.handle_update(e) by the event loop while the job runs
RouteWhileRunning(e, gw) ==
    /\ Running
    /\ Route(e, gw, "ok", "m1")

NextLoopAndJob ==
    \/ \E initiator_id \in AdminIds, text \in BroadcastTexts,
          run \in ConcurrentRuns : LaunchJob(initiator_id, text, run)
    \/ JobStepWith({"ok", "chat.not.found"}, {"ok"})
    \/ \E e \in BotStartedEvents, gw \in GatewayOutcomes :
          RouteWhileRunning(e, gw)
    \/ EventBoundary

SpecLoopAndJob == Init /\ [][NextLoopAndJob]_vars

(***************************************************************************)
(* SpecQuestion: questions of a user, routed by UpdateHandler, in a store  *)
(* that also receives operator-to-user messages, saved through the         *)
(* repository as MessageService.save_operator_message saves them.          *)
(***************************************************************************)
\* private messages that are questions: not commands, not from a bot
QuestionEvents == {e \in PrivateEvents : ~e.is_bot /\ e.text = "Hi"}

\* UpdateHandler.handle_update(e) for a question, in a store of up to
\* MaxStored messages.
RouteQuestion(e, gw, mid) ==
    LET w0 == [users |-> users, messages |-> messages, mappings |-> mappings,
               sent |-> <<>>, exported |-> FALSE, scenario |-> "none",
               exc |-> "none"]
        w == handle_update(w0, schema, e, gw, "ok", mid, now)
    IN  /\ Idle
        /\ Len(w.messages) <= MaxStored
        \* an outcome no call consumed is left at its default
        /\ gw # "ok" => Len(w.sent) >= 1
        /\ mid # "m1" => gw = "ok" /\ w.sent # <<>>
        /\ users' = w.users
        /\ messages' = w.messages
        /\ mappings' = w.mappings
        /\ sent' = w.sent
        /\ exported' = w.exported
        /\ scenario' = w.scenario
        /\ exc' = w.exc
        /\ ev' = e
        /\ UNCHANGED <<schema, now, call, ret, pollvars, adminvars>>

NextQuestion ==
    \/ \E e \in QuestionEvents, gw \in GatewayOutcomes, mid \in {"m1", NoMid} :
          RouteQuestion(e, gw, mid)
    \/ EventBoundary
    \/ \E uid \in UserIds, op \in OperatorNames :
          StoreSaveMessage(uid, TO_USER, "Hello", op)
    \/ Return
    \/ Tick

SpecQuestion == Init /\ [][NextQuestion]_vars

(***************************************************************************)
(* Properties of Spec: the router.                                         *)
(***************************************************************************)
\* The event just routed is e (Route is the only step that sets ev).
Routed == ev = NoEvent /\ ev' # NoEvent

FromOperator(e) ==
    /\ e.update_type = MESSAGE_CREATED
    /\ e.chat_id = SupportChatId
    /\ ~e.is_bot

\* C1 as stated: a message posted in the support channel by a non-bot sender
\* that carries a reply-link is handled as an operator reply whatever its
\* text, /export included, and the export collaborator is not invoked.
C1_ReplyLinkWins ==
    (FromOperator(ev) /\ ev.link.type = REPLY)
        => (scenario = "operator_reply" /\ ~exported)

\* C1 as the router decides: such a message is handled as the export
\* command when its trimmed, lower-cased text is /export (the export
\* collaborator is invoked and no reply is relayed), and as an operator
\* reply otherwise.
C1_ExportCommandWins ==
    (FromOperator(ev) /\ ev.link.type = REPLY)
        => IF ev.text \in {"/export", " /Export "}
           THEN /\ scenario = "export"
                /\ exported
                /\ \A i \in DOMAIN sent : sent[i].kind # "reply"
           ELSE scenario = "operator_reply" /\ ~exported

C1_Witness ==
    /\ FromOperator(ev)
    /\ ev.link = [type |-> REPLY, mid |-> "m1"]
    /\ ev.text = " /Export "
    /\ scenario = "export"
    /\ exported

\* C2: an operator reply whose replied-to message id has no mapping does
\* nothing: no gateway call, no row written in any table, and no exception
\* leaves handle_update.
C2_UnknownMappingNoOp ==
    [][(/\ Routed
        /\ FromOperator(ev')
        /\ ev'.link.type = REPLY
        /\ ev'.link.mid # NoMid
        /\ ev'.link.mid \notin DOMAIN mappings
        /\ ev'.text \notin {"/export", " /Export "})
          => (/\ sent' = <<>>
              /\ exc' = "none"
              /\ UNCHANGED <<users, messages, mappings>>)]_vars

\* C3: a private message of user U with text X that is not a start command
\* registers U, persists X as a user-to-support message, forwards it to the
\* support channel and, when the forward returned message id m, leaves a
\* mapping under m that get_mapping_by_message_id returns with U, U's
\* display name and X.
C3_MappingAfterForward ==
    scenario = "user_message"
        => /\ ev.user_id \in DOMAIN users
           /\ users[ev.user_id].name = ev.name
           /\ \E i \in DOMAIN messages :
                 /\ messages[i].user_id = ev.user_id
                 /\ messages[i].direction = FROM_USER
                 /\ messages[i].text = ev.text
           /\ Len(sent) >= 1
           /\ sent[1].kind = "forward"
           /\ sent[1].to = SupportChatId
           /\ sent[1].text = ev.text
           /\ (sent[1].result = "ok" /\ sent[1].mid # NoMid)
                 => LET got == get_mapping_by_message_id(mappings, schema,
                                                         sent[1].mid)
                    IN  /\ got.exc = "none"
                        /\ got.ret # None
                        /\ got.ret.value.user_id = ev.user_id
                        /\ got.ret.value.user_name = ev.name
                        /\ got.ret.value.question_text = ev.text

\* C9: a start command sent privately, or a bot-started event, registers or
\* updates the user, sends that user exactly one welcome prompt, of the
\* variant chosen by whether a phone number is on file, and writes neither a
\* message nor a mapping and forwards nothing.
C9_StartScenario ==
    [][(Routed /\ scenario' \in {"start", "bot_started"})
          => (/\ ev'.user_id \in DOMAIN users'
              /\ users'[ev'.user_id].name = ev'.name
              /\ Len(sent') = 1
              /\ sent'[1].op = "send_message_to_user"
              /\ sent'[1].to = ev'.user_id
              /\ sent'[1].kind =
                    IF /\ ev'.user_id \in DOMAIN users
                       /\ users[ev'.user_id].phone_number # NoPhone
                    THEN "welcome_with_phone" ELSE "welcome"
              /\ UNCHANGED <<messages, mappings>>)]_vars

\* An event of none of the six scenarios: an unknown update type; a
\* support-channel message that is neither an operator reply nor /export
\* (any message of the bot itself, a message without a link, a link that is
\* not a reply or names no message); a message that is neither in the
\* support channel nor private.
Unmatched(e) ==
    \/ e.update_type \notin {MESSAGE_CREATED, BOT_STARTED}
    \/ /\ e.update_type = MESSAGE_CREATED
       /\ e.chat_id = SupportChatId
       /\ \/ e.is_bot
          \/ /\ e.text \notin {"/export", " /Export "}
             /\ (e.link.type # REPLY \/ e.link.mid = NoMid)
    \/ /\ e.update_type = MESSAGE_CREATED
       /\ e.chat_id # SupportChatId
       /\ ~e.private

\* C10: routing an event that matches none of the six scenarios has no side
\* effect: no table changes, no gateway call is made and the export
\* collaborator is not invoked.
C10_UnmatchedNoEffect ==
    [][(Routed /\ Unmatched(ev'))
          => (/\ UNCHANGED <<users, messages, mappings>>
              /\ sent' = <<>>
              /\ ~exported')]_vars

C10_Witness ==
    /\ Unmatched(ev)
    /\ ev.update_type = MESSAGE_CREATED
    /\ ev.link.type = FORWARD
    /\ messages # <<>>
    /\ sent = <<>>

(***************************************************************************)
(* Properties of SpecStore: the message repository.                        *)
(***************************************************************************)
\* Rows of the messages table that belong to user u in direction d.
RowsOf(u, d) ==
    {i \in DOMAIN messages :
        messages[i].user_id = u /\ messages[i].direction = d}

\* C4: count_replies_for_question(U) is 0 when U has no user-to-support
\* message; otherwise it is the number of U's operator-to-user messages
\* whose timestamp is strictly greater than that of U's most recent
\* user-to-support message.  Rows of other users do not contribute.
C4_CountDefinition ==
    call.op = "count_replies"
        => LET asked == RowsOf(call.user_id, FROM_USER)
               later == {i \in RowsOf(call.user_id, TO_USER) :
                            \A j \in asked :
                                messages[i].timestamp > messages[j].timestamp}
           IN  ret = IntResult(IF asked = {} THEN 0 ELSE Cardinality(later))

C4_Witness ==
    /\ call.op = "count_replies"
    /\ ret = IntResult(1)
    /\ \E i \in DOMAIN messages :
          /\ messages[i].user_id # call.user_id
          /\ messages[i].direction = TO_USER

\* The rows of user u, oldest first, as (direction, timestamp) pairs.
History(u) ==
    LET Mine(r) == r.user_id = u
        mine == SelectSeq(messages, Mine)
    IN  [i \in DOMAIN mine |-> <<mine[i].direction, mine[i].timestamp>>]

\* C5: the count is never negative, is 0 for a user with no operator reply,
\* and starts again at 0 with each new question: after a question at t1
\* and a reply at t2 > t1 it is 1, and after a further question at t3 > t2
\* it is 0; in general it is 0 whenever the user's latest question is not
\* older than any of the replies.
C5_CountResets ==
    call.op = "count_replies"
        => LET u == call.user_id
               h == History(u)
           IN  /\ ret.kind = "int"
               /\ ret.value >= 0
               /\ RowsOf(u, TO_USER) = {} => ret.value = 0
               /\ (/\ Len(h) = 2
                   /\ h[1][1] = FROM_USER /\ h[2][1] = TO_USER
                   /\ h[1][2] < h[2][2]) => ret.value = 1
               /\ (/\ Len(h) = 3
                   /\ h[1][1] = FROM_USER /\ h[2][1] = TO_USER
                   /\ h[3][1] = FROM_USER
                   /\ h[1][2] < h[2][2] /\ h[2][2] < h[3][2]) => ret.value = 0
               /\ (\E j \in RowsOf(u, FROM_USER) :
                      \A i \in RowsOf(u, TO_USER) :
                          messages[j].timestamp >= messages[i].timestamp)
                     => ret.value = 0

C5_Witness ==
    /\ call.op = "count_replies"
    /\ History(call.user_id) = <<<<FROM_USER, 0>>, <<TO_USER, 1>>, <<FROM_USER, 2>>>>
    /\ ret = IntResult(0)

\* C6: rows with equal timestamps are ordered by insertion: the count is the
\* number of the user's operator-to-user rows inserted after the user's most
\* recently inserted user-to-support row, so a reply stored in the same
\* second as the question is counted.
C6_TiesByInsertionOrder ==
    call.op = "count_replies"
        => LET asked == RowsOf(call.user_id, FROM_USER)
               after == {i \in RowsOf(call.user_id, TO_USER) :
                            \A j \in asked : i > j}
           IN  ret = IntResult(IF asked = {} THEN 0 ELSE Cardinality(after))

\* C7: once save_mapping(m, uid, name, text) has returned, it has returned
\* the stored record and get_mapping_by_message_id(m) returns exactly that
\* user id, display name and question text.
C7_ReadYourWrites ==
    call.op = "save_mapping"
        => LET got == get_mapping_by_message_id(mappings, schema,
                                                call.message_id)
           IN  /\ exc = "none"
               /\ ret # None
               /\ got.exc = "none"
               /\ got.ret = ret
               /\ ret.value.user_id = call.user_id
               /\ ret.value.user_name = call.user_name
               /\ ret.value.question_text = call.question_text

\* C8: save_mapping is an upsert keyed by message id: after it the table
\* holds under that id the values last written, and the rows under every
\* other id are as they were.
C8_LastWriteWins ==
    [][call'.op = "save_mapping"
          => (/\ call'.message_id \in DOMAIN mappings'
              /\ mappings'[call'.message_id].user_id = call'.user_id
              /\ mappings'[call'.message_id].user_name = call'.user_name
              /\ mappings'[call'.message_id].question_text
                    = call'.question_text
              /\ \A m \in MessageIds \ {call'.message_id} :
                    /\ m \in DOMAIN mappings' <=> m \in DOMAIN mappings
                    /\ m \in DOMAIN mappings => mappings'[m] = mappings[m])]_vars

(***************************************************************************)
(* Properties of SpecPoll: the polling loop.                               *)
(***************************************************************************)
\* The events whose handling is finished or in progress, in that order.
Begun ==
    [i \in 1..Len(handled) |-> handled[i].event]
        \o (IF ev # NoEvent THEN <<ev>> ELSE <<>>)

\* C11: within one poll cycle the events of the batch are handled strictly
\* in arrival order, one at a time: the events begun so far are the first
\* events of the batch, the events left are the rest of it, and a store
\* write or a gateway call is only made by a step that starts the next
\* event of the batch while no other event is in progress.
C11_ArrivalOrder ==
    [][/\ Begun' = SubSeq(fetched', 1, Len(Begun'))
       /\ updates' = SubSeq(fetched', Len(handled') + 1, Len(fetched'))
       /\ (\/ <<users, messages, mappings>>' # <<users, messages, mappings>>
           \/ (sent' # sent /\ sent' # <<>>))
             => (/\ ev = NoEvent
                 /\ sent = <<>>
                 /\ Len(handled) < Len(fetched)
                 /\ ev' = fetched[Len(handled) + 1])]_vars

C11_Witness ==
    /\ Len(handled) = 1
    /\ handled[1].sent # <<>>
    /\ ev # NoEvent
    /\ ev # handled[1].event
    /\ sent # <<>>

\* C12: an error raised while one event is handled, a failed forward or a
\* failed send of an operator reply included, is caught at the event
\* boundary: the loop keeps running, the events that follow in the batch
\* are still to be handled, in order, and the cycle only ends when every
\* event of the batch has been handled.
C12_ErrorAtEventBoundary ==
    [][/\ (/\ pc = "handle" /\ ev # NoEvent /\ ev' = NoEvent
           /\ \/ exc # "none"
              \/ \E i \in DOMAIN sent : sent[i].result # "ok")
             => (/\ is_running' = is_running
                 /\ updates' = Tail(updates)
                 /\ pc' = IF Tail(updates) = <<>> THEN "poll" ELSE "handle")
       /\ pc' \in {"poll", "sleep"}
             => [i \in 1..Len(handled') |-> handled'[i].event] = fetched']_vars

C12_Witness ==
    /\ pc = "poll"
    /\ is_running
    /\ Len(handled) = 2
    /\ handled[1].exc # "none"
    /\ handled[2].sent # <<>>

PollErrors == {"MaxApiTimeoutError", "MaxApiError", "Exception"}

\* C13: the loop survives a failed poll: after get_updates raised, the loop
\* is still running and polls again, at once after a timeout and after the
\* retry delay otherwise; start() is only left after stop() or a keyboard
\* interrupt, never by the step in which a poll or an event failed.
C13_LoopSurvivesPollFailure ==
    [][/\ (/\ pc = "poll" /\ is_running
           /\ last_poll' \in PollErrors
           /\ last_poll' # last_poll)
             => (/\ is_running'
                 /\ pc' = IF last_poll' = "MaxApiTimeoutError"
                          THEN "poll" ELSE "sleep")
       /\ (pc = "sleep" /\ pc' \notin {"sleep", "exited"}) => pc' = "poll"
       /\ (pc # "exited" /\ pc' = "exited")
             => (/\ ~is_running \/ ~is_running' \/ pc = "sleep"
                 /\ last_poll' = last_poll
                 /\ handled' = handled)]_vars

C13_Witness ==
    /\ pc = "poll"
    /\ is_running
    /\ last_poll = "Exception"

\* C14: the mapping of a forwarded message is committed while the event of
\* the user's message is handled: once that event is done, the message id m
\* the forward returned is in the mapping table with all its fields, so every
\* later event that is an operator reply to m finds the mapping and the
\* answer is sent to the user who asked.
C14_MappingBeforeNextEvent ==
    \A i \in DOMAIN handled : \A k \in DOMAIN handled[i].sent :
        LET s == handled[i].sent[k]
            asked == handled[i].event
        IN  (s.kind = "forward" /\ s.result = "ok" /\ s.mid # NoMid)
              => /\ LET got == get_mapping_by_message_id(mappings, schema,
                                                         s.mid)
                    IN  /\ got.exc = "none"
                        /\ got.ret # None
                        /\ got.ret.value.user_id = asked.user_id
                        /\ got.ret.value.user_name = asked.name
                        /\ got.ret.value.question_text = asked.text
                 /\ \A j \in DOMAIN handled :
                       (/\ j > i
                        /\ FromOperator(handled[j].event)
                        /\ handled[j].event.link.type = REPLY
                        /\ handled[j].event.link.mid = s.mid)
                          => \E n \in DOMAIN handled[j].sent :
                                /\ handled[j].sent[n].kind = "reply"
                                /\ handled[j].sent[n].to = asked.user_id

(***************************************************************************)
(* Properties of SpecAdmin: the administrator panel.                       *)
(***************************************************************************)
\* an entry point of the panel is called by user uid
Entered(op, uid) == call.op = "none" /\ call'.op = op /\ call'.user_id = uid

\* C16: for an administrator, selecting the audience AllUsers in Idle leads
\* to AwaitingText, the text "Hello" received there leads to Confirming with
\* the text stored, and a cancel in Confirming leads back to Idle with no
\* stored text; none of the three steps starts a broadcast job.
C16_SelectTextCancel ==
    [][\A uid \in AdminIds :
          /\ (/\ Entered("handle_callback", uid)
              /\ call'.payload = NOTIFICATION_ALL
              /\ get_state(states, uid) = IDLE)
                => (/\ get_state(states', uid) = WAITING_NOTIFICATION_TEXT
                    /\ jobs' = jobs)
          /\ (/\ Entered("handle_notification_text", uid)
              /\ call'.text = "Hello"
              /\ get_state(states, uid) = WAITING_NOTIFICATION_TEXT)
                => (/\ get_state(states', uid) = CONFIRMING_NOTIFICATION
                    /\ get_notification_text(states', uid) = "Hello"
                    /\ jobs' = jobs)
          /\ (/\ Entered("handle_callback", uid)
              /\ call'.payload = CANCEL_SEND
              /\ get_state(states, uid) = CONFIRMING_NOTIFICATION)
                => (/\ get_state(states', uid) = IDLE
                    /\ get_notification_text(states', uid) = NoText
                    /\ jobs' = jobs)]_vars

\* C17: a callback with any payload or a text with any content that comes
\* from a user who is not an administrator is answered with the access-denied
\* notice and changes nothing: no context is created or modified and no
\* broadcast job is started.
C17_NonAdminRejected ==
    [][\A uid \in UserIds \ AdminIds :
          (\/ Entered("handle_callback", uid)
           \/ Entered("handle_notification_text", uid))
             => (/\ states' = states
                 /\ jobs' = jobs
                 /\ \E n \in DOMAIN sent' :
                       sent'[n].kind = "access_denied")]_vars

\* C18: when an administrator who is in Confirming with a stored text
\* confirms, exactly one broadcast job is started, with the stored text, and
\* on return the administrator is Idle with no stored text.
C18_ConfirmStartsOneJob ==
    [][\A uid \in AdminIds :
          (/\ Entered("handle_callback", uid)
           /\ call'.payload = CONFIRM_SEND
           /\ get_state(states, uid) = CONFIRMING_NOTIFICATION
           /\ get_notification_text(states, uid) \notin {NoText, ""})
             => (/\ Len(jobs') = Len(jobs) + 1
                 /\ jobs'[Len(jobs')].initiator = uid
                 /\ jobs'[Len(jobs')].text = get_notification_text(states, uid)
                 /\ get_state(states', uid) = IDLE
                 /\ get_notification_text(states', uid) = NoText)]_vars

\* C19: after the confirm of an administrator who was in Confirming with a
\* stored text has been handled, whatever happened while it was handled, the
\* administrator is Idle: no path, failed acknowledgement or failed start of
\* the job included, leaves the context in Confirming.
C19_ConfirmEndsIdle ==
    [][\A uid \in AdminIds :
          (/\ Entered("handle_callback", uid)
           /\ call'.payload = CONFIRM_SEND
           /\ get_state(states, uid) = CONFIRMING_NOTIFICATION
           /\ get_notification_text(states, uid) \notin {NoText, ""})
             => get_state(states', uid) = IDLE]_vars

\* C20: a text received from an administrator who is in AwaitingText moves
\* the administrator to Confirming and stores the text, and the preview of
\* the notification is sent to the administrator with the audience that was
\* chosen.
C20_TextToConfirming ==
    [][\A uid \in AdminIds :
          (/\ Entered("handle_notification_text", uid)
           /\ get_state(states, uid) = WAITING_NOTIFICATION_TEXT)
             => (/\ get_state(states', uid) = CONFIRMING_NOTIFICATION
                 /\ get_notification_text(states', uid) = call'.text
                 /\ \E n \in DOMAIN sent' :
                       /\ sent'[n].kind = "preview"
                       /\ sent'[n].to = uid
                       /\ sent'[n].text = call'.text)]_vars

\* C21: an administrator who is already in AwaitingText or Confirming and
\* selects an audience again is in AwaitingText afterwards: the second
\* selection replaces the first, and no broadcast job is queued or started.
C21_SecondSelectionWins ==
    [][\A uid \in AdminIds :
          (/\ Entered("handle_callback", uid)
           /\ call'.payload \in {NOTIFICATION_TEST, NOTIFICATION_ALL}
           /\ get_state(states, uid) \in {WAITING_NOTIFICATION_TEXT,
                                          CONFIRMING_NOTIFICATION})
             => (/\ get_state(states', uid) = WAITING_NOTIFICATION_TEXT
                 /\ jobs' = jobs)]_vars

\* C22: whatever state an administrator is in, the selection back-to-main
\* leaves that administrator Idle with no stored text, also when the call of
\* the gateway that redraws the menu failed.
C22_BackToMainResets ==
    [][\A uid \in AdminIds :
          (/\ Entered("handle_callback", uid)
           /\ call'.payload = BACK_TO_MAIN)
             => (/\ get_state(states', uid) = IDLE
                 /\ get_notification_text(states', uid) = NoText
                 /\ uid \notin DOMAIN states')]_vars

\* back-to-main of the administrator has been handled, the redraw failed, and
\* the context the administrator had is gone while another user's is kept
C22_Witness ==
    /\ call.op = "handle_callback"
    /\ call.user_id \in AdminIds
    /\ call.payload = BACK_TO_MAIN
    /\ exc # "none"
    /\ call.user_id \notin DOMAIN states
    /\ states # <<>>

(***************************************************************************)
(* Properties of SpecBroadcast: one broadcast job.                         *)
(***************************************************************************)
IsNotification(e) == e.kind = "notification"
IsProgress(e) == e.kind = "progress"
IsFinal(e) == e.kind = "final"

\* the sends to recipients a job has made, in the order it made them
Attempts(job) == SelectSeq(job.log, IsNotification)

\* the job has left the loop over the recipients by its end
Finished(job) == job.pc \in {"final", "done"}

NotActivatedCodes == {"dialog.not.found", "chat.not.found"}
NotFoundCodes == {"user.not.found"}

\* the recipients, in the order of the sends, whose send ended with one of
\* the codes
FailedWith(job, codes) ==
    LET Failed(e) == e.result \in codes
        es == SelectSeq(Attempts(job), Failed)
    IN  [i \in 1..Len(es) |-> es[i].to]

\* C23: when a job has finished, every recipient of its list has had one
\* send with one outcome; the sent count is the number of the sends that
\* succeeded, not-activated lists in recipient order the recipients whose send
\* failed with dialog.not.found or chat.not.found, not-found those whose send
\* failed with user.not.found, and the recipients of any other error are in
\* neither list, so that the three and the others add up to the list.
C23_EveryRecipientAccounted ==
    \A j \in DOMAIN jobs :
        Finished(jobs[j])
          => LET job == jobs[j]
                 tried == Attempts(job)
                 Ok == {i \in DOMAIN tried : tried[i].result = "ok"}
                 Others == {i \in DOMAIN tried :
                              tried[i].result \notin
                                 {"ok"} \cup NotActivatedCodes
                                        \cup NotFoundCodes}
             IN  /\ [i \in DOMAIN tried |-> tried[i].to] = job.recipients
                 /\ job.sent_count = Cardinality(Ok)
                 /\ job.not_activated_ids = FailedWith(job, NotActivatedCodes)
                 /\ job.not_found_ids = FailedWith(job, NotFoundCodes)
                 /\ job.sent_count + Len(job.not_activated_ids)
                      + Len(job.not_found_ids) + Cardinality(Others)
                        = total_recipients(job)

\* the run of the claim: recipients 1, 2, 3, the send to 2 failed with
\* chat.not.found, sent = 2, not-activated = [2], not-found = []
C23_Witness ==
    \E j \in DOMAIN jobs :
        /\ jobs[j].pc = "done"
        /\ jobs[j].recipients = <<1, 2, 3>>
        /\ Attempts(jobs[j])[2].result = "chat.not.found"
        /\ jobs[j].sent_count = 2
        /\ jobs[j].not_activated_ids = <<2>>
        /\ jobs[j].not_found_ids = <<>>

\* the job has told its initiator that it is complete
ReportedComplete(job) ==
    \E n \in DOMAIN job.log :
        \/ IsFinal(job.log[n])
        \/ IsProgress(job.log[n]) /\ job.log[n].body.is_final

\* C24: whatever sends fail, a job sends once to each recipient in stored
\* order: at any moment the sends made are those to the first recipients of
\* the list, one each, and once completion is reported they are all made.
C24_FailedSendDoesNotAbort ==
    \A j \in DOMAIN jobs :
        LET job == jobs[j]
            tried == Attempts(job)
        IN  /\ Len(tried) <= total_recipients(job)
            /\ [i \in DOMAIN tried |-> tried[i].to]
                  = SubSeq(job.recipients, 1, Len(tried))
            /\ ReportedComplete(job) => Len(tried) = total_recipients(job)

\* a job is done whose first send failed and whose later sends were made
C24_Witness ==
    \E j \in DOMAIN jobs :
        /\ jobs[j].pc = "done"
        /\ total_recipients(jobs[j]) = 3
        /\ Attempts(jobs[j])[1].result = "internal.error"
        /\ Attempts(jobs[j])[2].result = "user.not.found"
        /\ Attempts(jobs[j])[3].result = "ok"

\* the recipients after whom a progress notification is due
DuePoints(total, progress_interval) ==
    LET Due(k) == k % progress_interval = 0 \/ k = total
    IN  SelectSeq([k \in 1..total |-> k], Due)

\* C25: with a progress interval N >= 1, a job over n recipients that has
\* finished has sent its initiator one progress notification after the k-th
\* recipient for every k that is a multiple of N or is n, and no other, in
\* increasing k; each follows the send to the k-th recipient directly.
C25_ProgressEveryInterval ==
    \A j \in DOMAIN jobs :
        LET job == jobs[j]
            told == SelectSeq(job.log, IsProgress)
        IN  /\ (Finished(job) /\ job.progress_interval >= 1)
                  => [i \in DOMAIN told |-> told[i].index]
                        = DuePoints(total_recipients(job),
                                    job.progress_interval)
            /\ \A n \in DOMAIN job.log :
                  IsProgress(job.log[n])
                    => /\ job.log[n].to = job.initiator_id
                       /\ n > 1
                       /\ IsNotification(job.log[n - 1])
                       /\ job.log[n - 1].index = job.log[n].index

\* a job over two recipients with interval 2 is done: one notification, after
\* the second recipient
C25_Witness ==
    \E j \in DOMAIN jobs :
        /\ jobs[j].pc = "done"
        /\ jobs[j].progress_interval = 2
        /\ total_recipients(jobs[j]) = 2
        /\ Len(SelectSeq(jobs[j].log, IsProgress)) = 1

\* C26: a job that has completed the loop sends its initiator one final
\* report, after the last progress notification, and for each class of
\* failures that has members the report has the first five ids of the class
\* and the number of the others.
C26_FinalReport ==
    \A j \in DOMAIN jobs :
        jobs[j].pc = "done"
          => LET job == jobs[j]
                 last == job.log[Len(job.log)]
                 Shows(line, ids) ==
                    ids # <<>>
                      => \E n \in DOMAIN last.body :
                            /\ last.body[n].line = line
                            /\ "ids" \in DOMAIN last.body[n]
                            /\ last.body[n].ids = Preview(ids).ids
                            /\ last.body[n].more = Preview(ids).more
             IN  /\ Len(SelectSeq(job.log, IsFinal)) = 1
                 /\ IsFinal(last)
                 /\ last.to = job.initiator_id
                 /\ Shows("not_activated", job.not_activated_ids)
                 /\ Shows("not_found", job.not_found_ids)

\* C27: a job that raised inside the loop over its recipients has sent its
\* initiator a message that says so, as its last message, and no final
\* report; a job that has ended has never ended without a message to its
\* initiator.
C27_FailureReported ==
    \A j \in DOMAIN jobs :
        LET job == jobs[j]
        IN  /\ job.pc = "failed"
              => /\ job.log # <<>>
                 /\ job.log[Len(job.log)].kind = "failure"
                 /\ job.log[Len(job.log)].to = job.initiator_id
                 /\ SelectSeq(job.log, IsFinal) = <<>>
            /\ job.pc \in {"failed", "done"}
              => /\ job.log # <<>>
                 /\ job.log[Len(job.log)].kind \in {"failure", "final"}

\* a job with interval 0 has raised after its first recipient, with
\* recipients left
C27_Witness ==
    \E j \in DOMAIN jobs :
        /\ jobs[j].pc = "failed"
        /\ jobs[j].progress_interval = 0
        /\ jobs[j].index < total_recipients(jobs[j])
        /\ jobs[j].log[Len(jobs[j].log)].kind = "failure"

NoticeResults(job) ==
    LET ToInitiator(e) == ~IsNotification(e)
        es == SelectSeq(job.log, ToInitiator)
    IN  [i \in 1..Len(es) |-> es[i].result]

\* the outcomes of the sends a job made to its recipients, in order
SendResults(job) ==
    [i \in 1..Len(Attempts(job)) |-> Attempts(job)[i].result]

\* _send_notifications_async run from its start to its return with nothing
\* else running, the sends having the given outcomes
RECURSIVE RunAlone(_, _, _)
RunAlone(job, outcomes, notices) ==
    LET notice == IF notices = <<>> THEN "ok" ELSE Head(notices)
        After(next) ==
            RunAlone(next, outcomes,
                     SubSeq(notices, Len(next.log) - Len(job.log) + 1,
                            Len(notices)))
    IN  CASE job.pc = "send" ->
                 RunAlone(send_to_recipient(job, Head(outcomes)),
                          Tail(outcomes), notices)
          [] job.pc = "sleep" ->
                 RunAlone(sleep_between(job), outcomes, notices)
          [] job.pc = "progress" -> After(report_progress(job, notice))
          [] job.pc = "final" -> After(send_final_statistics(job, notice))
          [] OTHER -> job

\* C29: jobs that run at the same time do not affect one another: however
\* their steps were interleaved, a job that has ended has the sent count, the
\* not-activated and not-found lists and the messages to its initiator that
\* the same run gives alone, on its recipients and with its send outcomes.
C29_JobsIndependent ==
    \A j \in DOMAIN jobs :
        jobs[j].pc \in {"done", "failed"}
          => LET job == jobs[j]
                 alone == RunAlone(NewJob(job.initiator_id,
                                          job.notification_text,
                                          job.recipients,
                                          job.progress_interval),
                                   SendResults(job), NoticeResults(job))
             IN  /\ job.sent_count = alone.sent_count
                 /\ job.not_activated_ids = alone.not_activated_ids
                 /\ job.not_found_ids = alone.not_found_ids
                 /\ job.log = alone.log
                 /\ job.pc = alone.pc

\* the job started second has run to its end, with one send that succeeded
\* and one that failed, while the job started first is between two of its
\* sends
C29_Witness ==
    /\ Len(jobs) = 2
    /\ jobs[1].pc = "sleep"
    /\ jobs[1].sent_count = 1
    /\ jobs[2].pc = "done"
    /\ jobs[2].recipients = <<1, 2>>
    /\ jobs[2].sent_count = 1
    /\ jobs[2].not_activated_ids = <<2>>

(***************************************************************************)
(* Properties of SpecBroadcastLive.                                        *)
(***************************************************************************)
Ended(j) == j \in DOMAIN jobs /\ jobs[j].pc \in {"done", "failed"}

\* C30: every job that was started ends, by completing the loop over its
\* recipients or by raising; a job is never anywhere but in its loop, after
\* it with every recipient tried, or in the except clause after raising.
C30_JobTerminates ==
    /\ \A j \in 1..MaxJobs : (j \in DOMAIN jobs) ~> Ended(j)
    /\ [](\A j \in DOMAIN jobs :
            /\ jobs[j].pc \in {"send", "sleep", "progress", "final", "done",
                               "failed"}
            /\ jobs[j].pc \in {"final", "done"}
                 => jobs[j].index = total_recipients(jobs[j])
            /\ jobs[j].pc = "failed"
                 => jobs[j].log[Len(jobs[j].log)].kind = "failure")

\* a job over three recipients has completed its loop and returned
C30_Witness ==
    /\ Ended(1)
    /\ jobs[1].pc = "done"
    /\ jobs[1].index = 3

(***************************************************************************)
(* Properties of SpecBroadcast: the delay between the sends.               *)
(***************************************************************************)
\* C31: a job waits once after each recipient but the last, whatever the
\* outcome of the send: the k-th delay follows the send to the k-th
\* recipient and precedes the send to the next, a job that is about to send
\* to recipient k + 1 has waited k times, and a job that has completed its
\* loop over n >= 1 recipients has waited n - 1 times, not after the last.
C31_DelayBetweenSends ==
    \A j \in DOMAIN jobs :
        LET job == jobs[j]
            n == total_recipients(job)
        IN  /\ job.delays = [k \in 1..Len(job.delays) |-> k]
            /\ Len(job.delays) <= Len(Attempts(job))
            /\ Len(job.delays) < n \/ n = 0
            /\ job.pc = "send" => Len(job.delays) = Len(Attempts(job))
            /\ (Finished(job) /\ n >= 1) => Len(job.delays) = n - 1

\* a job over three recipients is done, two of its sends failed, and it
\* waited twice
C31_Witness ==
    \E j \in DOMAIN jobs :
        /\ jobs[j].pc = "done"
        /\ total_recipients(jobs[j]) = 3
        /\ Attempts(jobs[j])[1].result = "chat.not.found"
        /\ Attempts(jobs[j])[3].result = "internal.error"
        /\ jobs[j].delays = <<1, 2>>

(***************************************************************************)
(* Properties of SpecBroadcast: the percentage of a progress notification. *)
(***************************************************************************)
\* how many of the first k sends of a job ended with one of the results
CountOf(job, k, results) ==
    Cardinality({i \in 1..k : Attempts(job)[i].result \in results})

\* C32: a progress notification sent after the k-th recipient carries the
\* three counters as they stand after the first k sends, the delivered, the
\* not activated and the not found, and as percentage the hundredfold of
\* their sum divided by the total; a recipient whose send failed with another
\* error is in none of them.  The percentage is at most 100 and no
\* notification of a run has a smaller percentage than one before it.
C32_ProgressPercentage ==
    \A j \in DOMAIN jobs :
        LET job == jobs[j]
            told == SelectSeq(job.log, IsProgress)
        IN  /\ \A i \in DOMAIN told :
                  LET k == told[i].index
                      body == told[i].body
                      delivered == CountOf(job, k, {"ok"})
                      not_activated == CountOf(job, k, NotActivatedCodes)
                      not_found == CountOf(job, k, NotFoundCodes)
                  IN  /\ body.sent_count = delivered
                      /\ body.not_activated = not_activated
                      /\ body.not_found = not_found
                      /\ body.total_count = total_recipients(job)
                      /\ body.percentage
                            = ((delivered + not_activated + not_found) * 100)
                                 \div total_recipients(job)
                      /\ body.percentage <= 100
            /\ \A i, i2 \in DOMAIN told :
                  i < i2 => told[i].body.percentage <= told[i2].body.percentage

\* a job over three recipients with interval 1: the second send failed with
\* an error of no class, and the notifications say 33, 33 and 66 percent
C32_Witness ==
    \E j \in DOMAIN jobs :
        LET told == SelectSeq(jobs[j].log, IsProgress)
        IN  /\ total_recipients(jobs[j]) = 3
            /\ Len(told) = 3
            /\ Attempts(jobs[j])[2].result = "internal.error"
            /\ told[1].body.percentage = 33
            /\ told[2].body.percentage = 33
            /\ told[3].body.percentage = 66
            /\ told[3].body.is_final

ReplyToForwardOf(i) ==
    /\ ev # NoEvent
    /\ FromOperator(ev)
    /\ ev.link.type = REPLY
    /\ \E k \in DOMAIN handled[i].sent :
          /\ handled[i].sent[k].kind = "forward"
          /\ handled[i].sent[k].result = "ok"
          /\ handled[i].sent[k].mid # NoMid
          /\ handled[i].sent[k].mid = ev.link.mid

C36_ForwardedCountIsZero ==
    \A n \in DOMAIN sent : sent[n].kind = "forward" => sent[n].count = 0

\* a question has been forwarded for a user who had asked before and had
\* been answered after that
C36_Witness ==
    /\ ev \in QuestionEvents
    /\ \E n \in DOMAIN sent : sent[n].kind = "forward" /\ sent[n].count = 0
    /\ \E i, j \in DOMAIN messages :
          /\ i < j
          /\ j < Len(messages)
          /\ messages[i].user_id = ev.user_id
          /\ messages[i].direction = FROM_USER
          /\ messages[j].user_id = ev.user_id
          /\ messages[j].direction = TO_USER
          /\ messages[j].timestamp > messages[i].timestamp
          /\ messages[Len(messages)].user_id = ev.user_id
          /\ messages[Len(messages)].direction = FROM_USER

\* A forward that fails.
\* the forward of the question in progress failed or its answer had no
\* message id
ForwardGaveNoId ==
    /\ scenario = "user_message"
    /\ \E n \in DOMAIN sent :
          /\ sent[n].kind = "forward"
          /\ sent[n].result # "ok" \/ sent[n].mid = NoMid

\* C37: when the forward of a user's message to the support chat fails or
\* returns no message id, the user-to-support message that was persisted for
\* it is still the last row of the store, the user is registered, and the
\* mapping table is as it was: no message id leads to this question.
C37_FailedForwardKeepsMessage ==
    [][(Routed /\ ForwardGaveNoId')
         => /\ messages'
                 = save_message(messages, ev'.user_id, ev'.text, FROM_USER,
                                NoOperator, now)
            /\ ev'.user_id \in DOMAIN users'
            /\ users'[ev'.user_id].name = ev'.name
            /\ mappings' = mappings
            /\ \A m \in DOMAIN mappings' :
                  ~(/\ mappings'[m].user_id = ev'.user_id
                    /\ mappings'[m].question_text = ev'.text)]_vars

\* the forward of a question was refused by the gateway: the question is in
\* the store, its user is registered and there is no mapping
C37_Witness ==
    /\ ForwardGaveNoId
    /\ \E n \in DOMAIN sent : sent[n].result = "MaxApiHttpError"
    /\ exc = "none"
    /\ messages # <<>>
    /\ messages[Len(messages)].user_id = ev.user_id
    /\ messages[Len(messages)].direction = FROM_USER
    /\ messages[Len(messages)].text = ev.text
    /\ ev.user_id \in DOMAIN users
    /\ mappings = <<>>

(***************************************************************************)
(* Properties of SpecMarker: the poll marker.                              *)
(***************************************************************************)
\* the number of events of the gateway that precede the batch in hand
BatchStart == Position(last_marker) - Len(fetched)

\* C38: the marker the loop holds is that of the response it fetched last,
\* the position after the last event of the batch, from before the first
\* event of the batch is handled; handling an event, raising or not, does
\* not change it; every successful poll brings the events that follow the
\* position of the marker held, so no event comes a second time and each is
\* handled at most once; and a get_updates that raises leaves marker and
\* batch as they were, so that the next poll asks for the same position.
C38_MarkerBeforeHandling ==
    /\ [](/\ BatchStart >= 0
          /\ fetched = SubSeq(StreamEvents, BatchStart + 1,
                              Position(last_marker)))
    /\ [][/\ (ev = NoEvent /\ ev' # NoEvent)
                => /\ last_marker' = last_marker
                   /\ BatchStart >= 0
                   /\ ev' = StreamEvents[BatchStart + Len(handled) + 1]
          /\ (ev # NoEvent /\ ev' = NoEvent) => last_marker' = last_marker
          /\ (pc = "poll" /\ last_poll' = "ok")
                => BatchStart' = Position(last_marker)
          /\ (pc = "poll" /\ last_poll' \in PollErrors)
                => (last_marker' = last_marker /\ fetched' = fetched)
          /\ Position(last_marker') >= Position(last_marker)]_vars

\* on a database where every lookup of a mapping raises: the second batch is
\* in hand, the handling of its first event, the operator's reply, raised,
\* and its second event is being handled
C38_Witness ==
    /\ schema = CreatedSchema
    /\ pc = "handle"
    /\ BatchStart = 1
    /\ Len(fetched) = 2
    /\ Len(handled) = 1
    /\ handled[1].exc # "none"
    /\ ev = StreamEvents[3]

(***************************************************************************)
(* Properties of SpecLoopAndJob: a job beside the event loop               *)
(***************************************************************************)
\* users the event loop has registered that the job was not given
Newcomers(job) ==
    {u \in DOMAIN users : \A i \in DOMAIN job.recipients : job.recipients[i] # u}

\* C39: the recipient list of a job is the one it was entered with: no step
\* changes it, every notification of the job goes to the next entry of that
\* list, so a user the event loop registers during the run receives nothing
\* from it, every progress report carries the length of that list as its
\* total, a job
\* that has returned is the job its own list, text, interval and send
\* outcomes determine, whatever the loop has stored meanwhile, no step of
\* the loop changes a job, and no step of a job changes the store.
C39_RecipientsFixedAtLaunch ==
    /\ [](\A j \in DOMAIN jobs :
            LET job == jobs[j]
                attempts == Attempts(job)
            IN  /\ Len(attempts) <= Len(job.recipients)
                /\ \A i \in DOMAIN attempts :
                       attempts[i].to = job.recipients[i]
                /\ \A u \in Newcomers(job) :
                       \A i \in DOMAIN attempts : attempts[i].to # u
                /\ \A n \in DOMAIN job.log :
                       IsProgress(job.log[n]) =>
                           job.log[n].body.total_count = Len(job.recipients)
                /\ Ended(j) =>
                       job = RunAlone(NewJob(job.initiator_id,
                                             job.notification_text,
                                             job.recipients,
                                             job.progress_interval),
                                      SendResults(job), NoticeResults(job)))
    /\ [][/\ \A j \in DOMAIN jobs :
                j \in DOMAIN jobs' /\ jobs'[j].recipients = jobs[j].recipients
          /\ (jobs' # jobs) => (UNCHANGED nojobs)
          /\ (users' # users \/ ev' # ev) => (jobs' = jobs)]_vars

\* the job given <<2>> has returned after the loop registered user 1
C39_Witness ==
    /\ jobs # <<>>
    /\ jobs[1].pc = "done"
    /\ jobs[1].recipients = <<2>>
    /\ 1 \in DOMAIN users
    /\ Len(Attempts(jobs[1])) = 1


====
